---- MODULE Spec2Model ----
(***************************************************************************)
(* State-machine model of the GuitCam video recorder component             *)
(* (VideoRecorder).  Two variants of the component exist in the            *)
(* repository: the monitoring variant (src/src/VideoRecorder.jsx: raw      *)
(* microphone recorded, analyser graph for the level meter) and the        *)
(* shaping variant (src/unnamed/part_000: compressor + gain graph feeding  *)
(* the recorder).  Both are modelled; `variant` selects one.               *)
(*                                                                         *)
(* Handlers are pure operators on a record w (the "world": every ref, every*)
(* piece of React state and the runtime objects they point to).  An action *)
(* applies one handler, or one continuation of an async handler, to the    *)
(* current world and commits the result.                                   *)
(***************************************************************************)
EXTENDS Integers, Sequences, FiniteSets, TLC

VARIABLES
  variant,              \* "monitoring" | "shaping"
  runtime,              \* which browser APIs exist (getUserMedia, MediaRecorder,
                        \* AudioContext) and how they behave (videoTrack, closeThrows)
  mounted,              \* the component is mounted (videoRef.current non-null)
  \* React state (useState)
  isReady, isRecording, elapsedSec, error, isInitializing, isAudioMeterEnabled,
  rms, peak,            \* amplitudes in units of 1/Unit, rounded down
  isClipping,
  \* refs (useRef)
  streamRef, recorderRef, chunksRef, timerIntervalRef,
  audioContextRef, analyserRef, audioDestinationRef, meterRafRef,
  lastClipAtMsRef, meterLastUiUpdateMsRef,
  videoSrc,             \* videoRef.current.srcObject
  \* runtime objects
  streams,              \* stream id -> its tracks are live (not stopped)
  contexts,             \* audio context id -> "suspended" | "running" | "closed"
  sources,              \* audio context id -> the stream whose audio track feeds its graph
  recorders,            \* recorder id -> MediaRecorder object and its closure
  intervals,            \* number of setInterval timers not yet cleared
  frames,               \* handles of the animation frames requested and neither run
                        \* nor cancelled
  \* async invocations in flight
  initPending,          \* initMedia invocations suspended at getUserMedia
  playPending,          \* initMedia invocations suspended at video.play()
  startCalls,           \* startRecording invocations suspended at resume()
  clock,                \* performance.now() at the last meter tick, in ms
  \* observations
  clipAt,               \* time of the last tick whose window peaked at 0.98 or more
                        \* (-1: none yet)
  publishedAt,          \* time of the last tick that updated rms, peak and isClipping
                        \* (-1: none yet)
  deliveries,           \* the calls of triggerDownload, in order
  lastOp,               \* the handler or callback that ran last (for a rejection of
                        \* getUserMedia: the name of the exception)
  negotiation           \* input and output of the encoder negotiation under study

vars == <<variant, runtime, mounted, isReady, isRecording, elapsedSec, error, isInitializing,
          isAudioMeterEnabled, rms, peak, isClipping, lastClipAtMsRef,
          meterLastUiUpdateMsRef, clock, clipAt, streamRef, recorderRef, chunksRef, timerIntervalRef,
          audioContextRef, analyserRef, audioDestinationRef, meterRafRef, videoSrc,
          streams, contexts, sources, recorders, intervals, frames, initPending,
          playPending, startCalls, publishedAt, deliveries, lastOp, negotiation>>

----------------------------------------------------------------------------
(* Bounds of the model.                                                    *)

\* Runtime objects (streams, audio contexts, recorders, chunks) created in a run.
MaxObjects == 5
\* Invocations of one async handler suspended at the same time.
MaxPending == 2
\* Seconds the elapsed-time display counts up to.
MaxElapsed == 1
\* Samples in one window of the analyser (analyser.fftSize).
fftSize == 2
\* performance.now() up to which meter ticks are followed, in ms.
MaxClock == 1300
\* performance.now() when the component mounts, in ms.
PageLoadedMs == 100

----------------------------------------------------------------------------
(* Strings.  A JavaScript string is modelled by the sequence of its        *)
(* characters, so that toLowerCase, includes and padStart are computed     *)
(* rather than assumed.  Chars gives the characters of the strings the     *)
(* model names.                                                            *)

Chars(str) ==
  CASE str = "" -> <<>>
    [] str = "video/mp4;codecs=avc1.42E01E,mp4a.40.2" ->
         <<"v","i","d","e","o","/","m","p","4",";","c","o","d","e","c","s","=","a","v","c","1",".","4","2","E","0","1","E",",","m","p","4","a",".","4","0",".","2">>
    [] str = "video/mp4" ->
         <<"v","i","d","e","o","/","m","p","4">>
    [] str = "video/webm;codecs=vp9,opus" ->
         <<"v","i","d","e","o","/","w","e","b","m",";","c","o","d","e","c","s","=","v","p","9",",","o","p","u","s">>
    [] str = "video/webm;codecs=vp8,opus" ->
         <<"v","i","d","e","o","/","w","e","b","m",";","c","o","d","e","c","s","=","v","p","8",",","o","p","u","s">>
    [] str = "video/webm" ->
         <<"v","i","d","e","o","/","w","e","b","m">>
    [] str = "video/x-matroska;codecs=avc1,opus" ->
         <<"v","i","d","e","o","/","x","-","m","a","t","r","o","s","k","a",";","c","o","d","e","c","s","=","a","v","c","1",",","o","p","u","s">>
    [] str = "video/MP4" ->
         <<"v","i","d","e","o","/","M","P","4">>
    [] str = "mp4" ->
         <<"m","p","4">>
    [] str = "webm" ->
         <<"w","e","b","m">>

LowerOf(c) ==
  CASE c = "A" -> "a"
    [] c = "B" -> "b"
    [] c = "C" -> "c"
    [] c = "D" -> "d"
    [] c = "E" -> "e"
    [] c = "F" -> "f"
    [] c = "G" -> "g"
    [] c = "H" -> "h"
    [] c = "I" -> "i"
    [] c = "J" -> "j"
    [] c = "K" -> "k"
    [] c = "L" -> "l"
    [] c = "M" -> "m"
    [] c = "N" -> "n"
    [] c = "O" -> "o"
    [] c = "P" -> "p"
    [] c = "Q" -> "q"
    [] c = "R" -> "r"
    [] c = "S" -> "s"
    [] c = "T" -> "t"
    [] c = "U" -> "u"
    [] c = "V" -> "v"
    [] c = "W" -> "w"
    [] c = "X" -> "x"
    [] c = "Y" -> "y"
    [] c = "Z" -> "z"
    [] OTHER -> c


toLowerCase(cs) == [i \in 1..Len(cs) |-> LowerOf(cs[i])]

\* String.prototype.includes: some window of cs equals pat.
includes(cs, pat) ==
  \E i \in 0..(Len(cs) - Len(pat)) :
     \A j \in 1..Len(pat) : cs[i + j] = pat[j]

Digit(d) ==
  CASE d = 0 -> "0" [] d = 1 -> "1" [] d = 2 -> "2" [] d = 3 -> "3" [] d = 4 -> "4"
    [] d = 5 -> "5" [] d = 6 -> "6" [] d = 7 -> "7" [] d = 8 -> "8" [] d = 9 -> "9"

\* String(n) for a natural number n.
RECURSIVE String(_)
String(n) == IF n < 10 THEN <<Digit(n)>> ELSE String(n \div 10) \o <<Digit(n % 10)>>

RECURSIVE padStart(_, _, _)
padStart(cs, len, fill) == IF Len(cs) >= len THEN cs ELSE padStart(<<fill>> \o cs, len, fill)

pad2(n) == padStart(String(n), 2, "0")

\* d is the wall clock read by new Date(): month is 0-based as getMonth() is.
makeTimestampedFilename(ext, d) ==
  <<"r","e","c","-">> \o String(d.year) \o pad2(d.month + 1) \o pad2(d.date)
    \o <<"-">> \o pad2(d.hours) \o pad2(d.minutes) \o pad2(d.seconds)
    \o <<".">> \o Chars(ext)

\* A variant that looks for "mp4" without lowering the case first.
guessExtensionFromMime_caseSensitive(mimeType) ==
  IF mimeType # "" /\ includes(Chars(mimeType), Chars("mp4"))
  THEN "mp4"
  ELSE "webm"

guessExtensionFromMime(mimeType) ==
  IF mimeType # "" /\ includes(toLowerCase(Chars(mimeType)), Chars("mp4"))
  THEN "mp4"
  ELSE "webm"

----------------------------------------------------------------------------
(* Encoder negotiation.                                                    *)

candidates ==
  << "video/mp4;codecs=avc1.42E01E,mp4a.40.2",
     "video/mp4",
     "video/webm;codecs=vp9,opus",
     "video/webm;codecs=vp8,opus",
     "video/webm" >>

\* What MediaRecorder.isTypeSupported does for one candidate: it answers, or it
\* throws (which includes isTypeSupported not being a function).
ProbeAnswers == {"yes", "no", "throw"}

\* The loop of pickMimeType from candidate i on.  mr: window.MediaRecorder is
\* truthy; probe[i]: the capability probe's behaviour for candidate i.
RECURSIVE pickFrom(_, _, _)
pickFrom(i, mr, probe) ==
  IF i > Len(candidates) THEN ""
  ELSE IF mr /\ probe[i] = "yes" THEN candidates[i]
  ELSE pickFrom(i + 1, mr, probe)

\* A variant that keeps looking after a supported candidate and returns the last.
pickMimeType_lastSupported(mr, probe) ==
  LET supported == {i \in 1..Len(candidates) : mr /\ probe[i] = "yes"}
  IN IF supported = {} THEN ""
     ELSE candidates[CHOOSE i \in supported : \A j \in supported : j <= i]

pickMimeType(mr, probe) == pickFrom(1, mr, probe)

\* A variant of the ladder with a rung below the floor.
bitrateAttempts_lowRung ==
  << [videoBitsPerSecond |-> 12000000, audioBitsPerSecond |-> 192000],
     [videoBitsPerSecond |-> 8000000,  audioBitsPerSecond |-> 160000],
     [videoBitsPerSecond |-> 5000000,  audioBitsPerSecond |-> 128000],
     [videoBitsPerSecond |-> 2500000,  audioBitsPerSecond |-> 128000],
     [videoBitsPerSecond |-> 1000000,  audioBitsPerSecond |-> 96000] >>

bitrateAttempts ==
  << [videoBitsPerSecond |-> 12000000, audioBitsPerSecond |-> 192000],
     [videoBitsPerSecond |-> 8000000,  audioBitsPerSecond |-> 160000],
     [videoBitsPerSecond |-> 5000000,  audioBitsPerSecond |-> 128000],
     [videoBitsPerSecond |-> 2500000,  audioBitsPerSecond |-> 128000] >>

\* Index, in an accept pattern, of the construction with no explicit bitrate.
Bare == Len(bitrateAttempts) + 1

\* A variant of the for-loop that gives up one rung early.
RECURSIVE ladderFrom_skipFloor(_, _, _)
ladderFrom_skipFloor(i, accept, log) ==
  IF i >= Len(bitrateAttempts) THEN [rung |-> 0, log |-> log]
  ELSE LET try == [rung |-> i,
                   videoBitsPerSecond |-> bitrateAttempts[i].videoBitsPerSecond,
                   audioBitsPerSecond |-> bitrateAttempts[i].audioBitsPerSecond,
                   threw |-> ~accept[i]]
       IN IF accept[i]
          THEN [rung |-> i, log |-> Append(log, try)]
          ELSE ladderFrom_skipFloor(i + 1, accept, Append(log, try))

\* The for-loop over bitrateAttempts from rung i on.  accept[i]: the runtime's
\* constructor does not throw for rung i.  log: the constructions attempted so far,
\* each with the options passed and whether it threw.
RECURSIVE ladderFrom(_, _, _)
ladderFrom(i, accept, log) ==
  IF i > Len(bitrateAttempts) THEN [rung |-> 0, log |-> log]
  ELSE LET try == [rung |-> i,
                   videoBitsPerSecond |-> bitrateAttempts[i].videoBitsPerSecond,
                   audioBitsPerSecond |-> bitrateAttempts[i].audioBitsPerSecond,
                   threw |-> ~accept[i]]
       IN IF accept[i]
          THEN [rung |-> i, log |-> Append(log, try)]
          ELSE ladderFrom(i + 1, accept, Append(log, try))

\* A variant of the construction that gives up after the ladder.
constructRecorder_noBare(accept) ==
  LET l == ladderFrom(1, accept, <<>>)
  IN IF l.rung # 0
     THEN [ok |-> TRUE, rung |-> l.rung, log |-> l.log,
           videoBitsPerSecond |-> bitrateAttempts[l.rung].videoBitsPerSecond,
           audioBitsPerSecond |-> bitrateAttempts[l.rung].audioBitsPerSecond]
     ELSE [ok |-> FALSE, rung |-> Bare, log |-> l.log,
           videoBitsPerSecond |-> 0, audioBitsPerSecond |-> 0]

\* The recorder construction of startRecording: the ladder, then the construction
\* with the codec string only.  videoBitsPerSecond 0 stands for "not passed".
constructRecorder(accept) ==
  LET l == ladderFrom(1, accept, <<>>)
  IN IF l.rung # 0
     THEN [ok |-> TRUE, rung |-> l.rung, log |-> l.log,
           videoBitsPerSecond |-> bitrateAttempts[l.rung].videoBitsPerSecond,
           audioBitsPerSecond |-> bitrateAttempts[l.rung].audioBitsPerSecond]
     ELSE [ok |-> accept[Bare], rung |-> Bare,
           log |-> Append(l.log, [rung |-> Bare, videoBitsPerSecond |-> 0,
                                  audioBitsPerSecond |-> 0, threw |-> ~accept[Bare]]),
           videoBitsPerSecond |-> 0, audioBitsPerSecond |-> 0]

----------------------------------------------------------------------------
(* The world a handler runs in, and the helpers of the component.          *)

World ==
  [variant |-> variant, mounted |-> mounted,
   isReady |-> isReady, isRecording |-> isRecording, elapsedSec |-> elapsedSec,
   error |-> error, isInitializing |-> isInitializing,
   isAudioMeterEnabled |-> isAudioMeterEnabled,
   rms |-> rms, peak |-> peak, isClipping |-> isClipping,
   lastClipAtMsRef |-> lastClipAtMsRef, meterLastUiUpdateMsRef |-> meterLastUiUpdateMsRef,
   streamRef |-> streamRef, recorderRef |-> recorderRef, chunksRef |-> chunksRef,
   timerIntervalRef |-> timerIntervalRef, audioContextRef |-> audioContextRef,
   analyserRef |-> analyserRef, audioDestinationRef |-> audioDestinationRef,
   meterRafRef |-> meterRafRef, videoSrc |-> videoSrc,
   streams |-> streams, contexts |-> contexts, sources |-> sources,
   recorders |-> recorders,
   intervals |-> intervals, frames |-> frames, initPending |-> initPending, playPending |-> playPending,
   startCalls |-> startCalls, deliveries |-> deliveries]

\* The world w becomes the next state; op names the handler that produced it.
\* (w is evaluated once, as the value v.)
Store(w, op) ==
  \E v \in {w} :
    /\ variant' = v.variant
    /\ mounted' = v.mounted
    /\ isReady' = v.isReady
    /\ isRecording' = v.isRecording
    /\ elapsedSec' = v.elapsedSec
    /\ error' = v.error
    /\ isInitializing' = v.isInitializing
    /\ isAudioMeterEnabled' = v.isAudioMeterEnabled
    /\ rms' = v.rms
    /\ peak' = v.peak
    /\ isClipping' = v.isClipping
    /\ lastClipAtMsRef' = v.lastClipAtMsRef
    /\ meterLastUiUpdateMsRef' = v.meterLastUiUpdateMsRef
    /\ streamRef' = v.streamRef
    /\ recorderRef' = v.recorderRef
    /\ chunksRef' = v.chunksRef
    /\ timerIntervalRef' = v.timerIntervalRef
    /\ audioContextRef' = v.audioContextRef
    /\ analyserRef' = v.analyserRef
    /\ audioDestinationRef' = v.audioDestinationRef
    /\ meterRafRef' = v.meterRafRef
    /\ videoSrc' = v.videoSrc
    /\ streams' = v.streams
    /\ contexts' = v.contexts
    /\ sources' = v.sources
    /\ recorders' = v.recorders
    /\ intervals' = v.intervals
    /\ frames' = v.frames
    /\ initPending' = v.initPending
    /\ playPending' = v.playPending
    /\ startCalls' = v.startCalls
    /\ deliveries' = v.deliveries
    /\ lastOp' = op

\* A handler that reads no clock.
Commit(w, op) ==
  /\ Store(w, op)
  /\ UNCHANGED <<runtime, negotiation, clock, clipAt, publishedAt>>

\* A useState setter: React drops the update of a component that is unmounted.
setIsReady(w, v) == IF w.mounted THEN [w EXCEPT !.isReady = v] ELSE w
setIsRecording(w, v) == IF w.mounted THEN [w EXCEPT !.isRecording = v] ELSE w
setElapsedSec(w, v) == IF w.mounted THEN [w EXCEPT !.elapsedSec = v] ELSE w
setError(w, v) == IF w.mounted THEN [w EXCEPT !.error = v] ELSE w
setIsInitializing(w, v) == IF w.mounted THEN [w EXCEPT !.isInitializing = v] ELSE w
setIsAudioMeterEnabled(w, v) == IF w.mounted THEN [w EXCEPT !.isAudioMeterEnabled = v] ELSE w
setRms(w, v) == IF w.mounted THEN [w EXCEPT !.rms = v] ELSE w
setPeak(w, v) == IF w.mounted THEN [w EXCEPT !.peak = v] ELSE w
setIsClipping(w, v) == IF w.mounted THEN [w EXCEPT !.isClipping = v] ELSE w

cleanupStreamOnly(w) ==
  LET a == IF w.streamRef # 0
           THEN [w EXCEPT !.streams[w.streamRef] = FALSE, !.streamRef = 0]
           ELSE w
  IN IF a.mounted THEN [a EXCEPT !.videoSrc = 0] ELSE a

\* AudioContext.close(): a context that is already closed stays closed; when
\* close() throws or rejects the context stays as it is (the rejection or the
\* exception is swallowed by the caller).
closeContext(w, c) ==
  IF runtime.closeThrows THEN w ELSE [w EXCEPT !.contexts[c] = "closed"]

\* requestAnimationFrame(tick), its handle stored in meterRafRef: a handle the
\* browser has not handed out before (the least one that is neither pending nor
\* still held by the ref).
requestAnimationFrame(w) ==
  LET id == CHOOSE i \in 1..(Cardinality(w.frames) + 2) :
              /\ i \notin w.frames \cup {w.meterRafRef}
              /\ \A j \in 1..(i - 1) : j \in w.frames \cup {w.meterRafRef}
  IN [w EXCEPT !.frames = @ \cup {id}, !.meterRafRef = id]

\* cancelAnimationFrame(id): a handle that is not pending cancels nothing.
cancelAnimationFrame(w, id) == [w EXCEPT !.frames = @ \ {id}]

cleanupAudioGraph(w) ==
  LET a == IF w.variant = "monitoring" /\ w.meterRafRef # 0
           THEN [cancelAnimationFrame(w, w.meterRafRef) EXCEPT !.meterRafRef = 0]
           ELSE w
      b == IF a.audioContextRef # 0 THEN closeContext(a, a.audioContextRef) ELSE a
      c == [b EXCEPT !.audioContextRef = 0, !.analyserRef = 0, !.audioDestinationRef = 0]
      d == [c EXCEPT !.lastClipAtMsRef = 0, !.meterLastUiUpdateMsRef = 0]
  IN IF w.variant = "monitoring"
     THEN setIsClipping(setPeak(setRms(setIsAudioMeterEnabled(d, FALSE), 0), 0), FALSE)
     ELSE c

\* Amplitudes are fixed-point numbers in units of 1/Unit; an 8-bit sample b is
\* (b - 128) / 128, that is b - 128 units.
Unit == 128
ClipPeakPercent == 98
ClipHoldMs == 900
UiThrottleMs == 50

abs(v) == IF v < 0 THEN -v ELSE v

\* Math.sqrt, rounded down.
sqrt(x) == CHOOSE r \in 0..x : r * r <= x /\ (r + 1) * (r + 1) > x

\* The sample loop of tick over buf from index i on, on normalised samples:
\* the peak of the absolute values and the sum of the squares.
RECURSIVE scan(_, _, _, _)
scan(buf, i, localPeak, sumSq) ==
  IF i > Len(buf) THEN [localPeak |-> localPeak, sumSq |-> sumSq]
  ELSE LET v == buf[i]
           av == abs(v)
       IN scan(buf, i + 1, IF av > localPeak THEN av ELSE localPeak, sumSq + v * v)

\* A variant of tick with a clip hold of 90 ms.
tick_shortHold(w, data, hasFloat, now) ==
  IF w.analyserRef = 0 THEN w
  ELSE LET buf == IF hasFloat THEN data ELSE [i \in 1..Len(data) |-> data[i] - 128]
           s == scan(buf, 1, 0, 0)
           n == IF fftSize > 1 THEN fftSize ELSE 1
           localRms == sqrt(s.sumSq \div n)
           a == IF s.localPeak * 100 >= ClipPeakPercent * Unit
                THEN [w EXCEPT !.lastClipAtMsRef = now] ELSE w
           clipHold == now - a.lastClipAtMsRef < 90
       IN requestAnimationFrame(
            IF now - a.meterLastUiUpdateMsRef > UiThrottleMs
            THEN setIsClipping(setPeak(setRms([a EXCEPT !.meterLastUiUpdateMsRef = now],
                                              localRms), s.localPeak), clipHold)
            ELSE a)

\* A variant of tick that updates the levels on every frame.
tick_unthrottled(w, data, hasFloat, now) ==
  IF w.analyserRef = 0 THEN w
  ELSE LET buf == IF hasFloat THEN data ELSE [i \in 1..Len(data) |-> data[i] - 128]
           s == scan(buf, 1, 0, 0)
           n == IF fftSize > 1 THEN fftSize ELSE 1
           localRms == sqrt(s.sumSq \div n)
           a == IF s.localPeak * 100 >= ClipPeakPercent * Unit
                THEN [w EXCEPT !.lastClipAtMsRef = now] ELSE w
           clipHold == now - a.lastClipAtMsRef < ClipHoldMs
       IN requestAnimationFrame(
            IF now - a.meterLastUiUpdateMsRef > 0
            THEN setIsClipping(setPeak(setRms([a EXCEPT !.meterLastUiUpdateMsRef = now],
                                              localRms), s.localPeak), clipHold)
            ELSE a)

\* The frame callback of startMeterLoop.  data: the time-domain window the
\* analyser returns, float samples in units of 1/Unit when hasFloat, bytes
\* otherwise; now: performance.now().  The callback requests the next frame
\* unless the analyser is gone.
tick(w, data, hasFloat, now) ==
  IF w.analyserRef = 0 THEN w
  ELSE LET buf == IF hasFloat THEN data ELSE [i \in 1..Len(data) |-> data[i] - 128]
           s == scan(buf, 1, 0, 0)
           n == IF fftSize > 1 THEN fftSize ELSE 1
           localRms == sqrt(s.sumSq \div n)
           a == IF s.localPeak * 100 >= ClipPeakPercent * Unit
                THEN [w EXCEPT !.lastClipAtMsRef = now] ELSE w
           clipHold == now - a.lastClipAtMsRef < ClipHoldMs
       IN requestAnimationFrame(
            IF now - a.meterLastUiUpdateMsRef > UiThrottleMs
            THEN setIsClipping(setPeak(setRms([a EXCEPT !.meterLastUiUpdateMsRef = now],
                                              localRms), s.localPeak), clipHold)
            ELSE a)

\* A variant of startMeterLoop without the guard on meterRafRef.
startMeterLoop_unguarded(w) ==
  IF w.analyserRef = 0 THEN w
  ELSE requestAnimationFrame(w)

startMeterLoop(w) ==
  IF w.meterRafRef # 0 THEN w
  ELSE IF w.analyserRef = 0 THEN w
  ELSE requestAnimationFrame(w)

\* A variant of stopTimer that clears the interval and keeps the ref.
stopTimer_keepsRef(w) ==
  IF w.timerIntervalRef # 0
  THEN [w EXCEPT !.intervals = @ - 1]
  ELSE w

stopTimer(w) ==
  IF w.timerIntervalRef # 0
  THEN [w EXCEPT !.intervals = @ - 1, !.timerIntervalRef = 0]
  ELSE w

startTimer(w) ==
  LET a == setElapsedSec(stopTimer(w), 0)
  IN [a EXCEPT !.intervals = @ + 1, !.timerIntervalRef = 1]

\* Streams, audio contexts, recorders and chunks the runtime has created so far.
RECURSIVE SentTotal(_, _)
SentTotal(recs, i) == IF i > Len(recs) THEN 0 ELSE Len(recs[i].sent) + SentTotal(recs, i + 1)

Objects(w) == Len(w.streams) + Len(w.contexts) + Len(w.recorders) + SentTotal(w.recorders, 1)

----------------------------------------------------------------------------
(* Device acquisition: initMedia.                                          *)

PermissionDeniedMessage == "Camera/microphone permission was denied. Please allow access and try again."
DeviceNotFoundMessage == "No camera/microphone device found."
InitFailedMessage == "Failed to initialize camera/microphone."
GetUserMediaMissingMessage == "Your browser does not support camera/microphone access (getUserMedia)."

\* The exceptions getUserMedia rejects with.
Rejections ==
  { [name |-> "NotAllowedError", message |-> "Permission denied"],
    [name |-> "NotFoundError", message |-> "Requested device not found"],
    [name |-> "NotReadableError", message |-> "Could not start video source"],
    [name |-> "AbortError", message |-> ""] }

\* The message the catch block of initMedia derives from the exception e.
acquisitionMessage(e) ==
  IF e.name = "NotAllowedError" THEN PermissionDeniedMessage
  ELSE IF e.name = "NotFoundError" THEN DeviceNotFoundMessage
  ELSE IF e.message # "" THEN e.message
  ELSE InitFailedMessage

\* catch and finally of initMedia.
initMediaCatch(w, e) ==
  setIsInitializing(setIsReady(setError(w, acquisitionMessage(e)), FALSE), FALSE)

\* initMedia up to its first await.  gum: navigator.mediaDevices.getUserMedia exists.
initMedia(w, gum) ==
  LET a == setIsReady(setIsInitializing(setError(w, ""), TRUE), FALSE)
      b == cleanupStreamOnly(a)
      c == IF w.variant = "monitoring" THEN cleanupAudioGraph(b) ELSE b
  IN IF gum
     THEN [c EXCEPT !.initPending = @ + 1]
     ELSE initMediaCatch(c, [name |-> "Error", message |-> GetUserMediaMissingMessage])

\* initMedia from the resolution of getUserMedia to the await of play(), or to
\* the end when there is no video element any more.
initMediaResolved(w) ==
  LET id == Len(w.streams) + 1
      a == [w EXCEPT !.initPending = @ - 1, !.streams = Append(@, TRUE), !.streamRef = id]
  IN IF a.mounted
     THEN [a EXCEPT !.videoSrc = id, !.playPending = @ + 1]
     ELSE setIsInitializing(setIsReady(a, TRUE), FALSE)

\* initMedia after play() settled (its rejection is swallowed).
initMediaPlayed(w) ==
  setIsInitializing(setIsReady([w EXCEPT !.playPending = @ - 1], TRUE), FALSE)

initMediaRejected(w, e) == initMediaCatch([w EXCEPT !.initPending = @ - 1], e)

----------------------------------------------------------------------------
(* Audio graph.                                                            *)

NoAudioContextMessage == "Web Audio API (AudioContext) is not supported in this browser."

\* The state a new AudioContext reports right after construction.
NewContextStates == {"suspended", "running"}

NoMicrophoneTrackMessage == "No microphone track available."

\* The message of the exception a node constructor of the context throws.
GraphErrorMessage == "InvalidStateError"

\* ensureAudioGraph of the monitoring variant.  audioCtx: the AudioContext
\* constructor exists; ctxState: the state of the context it returns.  The
\* result is the world and the message of the exception thrown ("" for none).
\* runtime.audioTrack: the stream carries an audio track; runtime.graphThrows:
\* createMediaStreamSource throws, after the context was created and stored.
ensureAudioGraph(w, audioCtx, ctxState) ==
  IF w.audioContextRef # 0 /\ w.analyserRef # 0 THEN [w |-> w, threw |-> ""]
  ELSE IF ~audioCtx THEN [w |-> w, threw |-> NoAudioContextMessage]
  ELSE IF ~runtime.audioTrack THEN [w |-> w, threw |-> NoMicrophoneTrackMessage]
  ELSE LET id == Len(w.contexts) + 1
           a == [w EXCEPT !.contexts = Append(@, ctxState),
                          !.sources = Append(@, w.streamRef),
                          !.audioContextRef = id]
       IN IF runtime.graphThrows
          THEN [w |-> a, threw |-> GraphErrorMessage]
          ELSE [w |-> [a EXCEPT !.analyserRef = id], threw |-> ""]

\* A variant of makeProcessedAudioStream that does not look for the audio track.
makeProcessedAudioStream_noTrackCheck(w, audioCtx, ctxState) ==
  IF ~audioCtx THEN [w |-> w, threw |-> NoAudioContextMessage]
  ELSE LET id == Len(w.contexts) + 1
           a == [w EXCEPT !.contexts = Append(@, ctxState),
                          !.sources = Append(@, w.streamRef),
                          !.audioContextRef = id]
       IN IF runtime.graphThrows
          THEN [w |-> a, threw |-> GraphErrorMessage]
          ELSE [w |-> [a EXCEPT !.audioDestinationRef = id], threw |-> ""]

\* makeProcessedAudioStream of the shaping variant.
makeProcessedAudioStream(w, audioCtx, ctxState) ==
  IF ~audioCtx THEN [w |-> w, threw |-> NoAudioContextMessage]
  ELSE IF ~runtime.audioTrack THEN [w |-> w, threw |-> NoMicrophoneTrackMessage]
  ELSE LET id == Len(w.contexts) + 1
           a == [w EXCEPT !.contexts = Append(@, ctxState),
                          !.sources = Append(@, w.streamRef),
                          !.audioContextRef = id]
       IN IF runtime.graphThrows
          THEN [w |-> a, threw |-> GraphErrorMessage]
          ELSE [w |-> [a EXCEPT !.audioDestinationRef = id], threw |-> ""]

\* A variant that enables the meter whatever the state of the context.
enableAudioMeterEnd_always(w) ==
  IF w.audioContextRef # 0
  THEN startMeterLoop(setIsAudioMeterEnabled(w, TRUE))
  ELSE w

\* enableAudioMeter after its await (or from the state test on when the context
\* was not suspended).
enableAudioMeterEnd(w) ==
  IF w.audioContextRef # 0 /\ w.contexts[w.audioContextRef] = "running"
  THEN startMeterLoop(setIsAudioMeterEnabled(w, TRUE))
  ELSE w

\* enableAudioMeter up to its await.  await: it suspended at resume().
enableAudioMeterBegin(w, audioCtx, ctxState) ==
  IF w.streamRef = 0 THEN [w |-> w, await |-> FALSE]
  ELSE LET g == ensureAudioGraph(w, audioCtx, ctxState)
       IN IF g.threw # "" THEN [w |-> g.w, await |-> FALSE]
          ELSE IF g.w.audioContextRef # 0 /\ g.w.contexts[g.w.audioContextRef] = "suspended"
          THEN [w |-> g.w, await |-> TRUE]
          ELSE [w |-> enableAudioMeterEnd(g.w), await |-> FALSE]

----------------------------------------------------------------------------
(* Capture session: startRecording, the recorder's callbacks, stopRecording.*)

NoMediaRecorderMessage == "MediaRecorder is not supported in this browser."
NoCameraTrackMessage == "No camera track available."
NotInitializedMessage == "Camera/microphone is not initialized."
StartFailedMessage == "Failed to start recording."
RecordingErrorMessage == "Recording error occurred. Please try again."

\* A variant of the catch block that leaves the elapsed time as it is.
startRecordingCatch_keepsElapsed(w, message) ==
  LET a == cleanupAudioGraph(w)
      b == setIsRecording(a, FALSE)
      c == stopTimer(b)
  IN setError(c, IF message # "" THEN message ELSE StartFailedMessage)

\* The catch block of startRecording; message is e.message.
startRecordingCatch(w, message) ==
  LET a == cleanupAudioGraph(w)
      b == setIsRecording(a, FALSE)
      c == stopTimer(b)
      d == setElapsedSec(c, 0)
  IN setError(d, IF message # "" THEN message ELSE StartFailedMessage)

\* startRecording from pickMimeType on.  call holds the locals captured before
\* the await: the raw stream and the context whose output is recorded (0: the raw
\* microphone track is recorded).  Of a recorder the model keeps, besides the
\* runtime's state, the options it was constructed with, the constructions
\* attempted to obtain it (log), whether start() succeeded on it (started),
\* whether the runtime has reported an error of it (faulted) and the sizes of
\* the chunks it has delivered (sent).  env is what the runtime does: probe and accept
\* as in pickMimeType and constructRecorder, message: the message of the
\* exception of a failed construction or start, startThrows: recorder.start
\* throws, reported: recorder.mimeType once started without a codec string.
startRecordingRest(w, call, env) ==
  LET mimeType == pickMimeType(runtime.MediaRecorder, env.probe)
      c == constructRecorder(env.accept)
      id == Len(w.recorders) + 1
      recorder == [stream |-> call.stream, audio |-> call.audio,
                   state |-> "inactive", stopQueued |-> FALSE,
                   videoBitsPerSecond |-> c.videoBitsPerSecond,
                   audioBitsPerSecond |-> c.audioBitsPerSecond,
                   log |-> c.log, started |-> FALSE, faulted |-> FALSE,
                   chosenMime |-> mimeType, mimeType |-> mimeType, sent |-> <<>>]
      a == [w EXCEPT !.recorders = Append(@, recorder), !.recorderRef = id,
                     !.chunksRef = <<>>]
      b == [a EXCEPT !.recorders[id].state = "recording",
                     !.recorders[id].started = TRUE,
                     !.recorders[id].mimeType =
                        IF mimeType # "" THEN mimeType ELSE env.reported]
  IN IF ~c.ok THEN startRecordingCatch(w, env.message)
     ELSE IF env.startThrows THEN startRecordingCatch(a, env.message)
     ELSE startTimer(setIsRecording(b, TRUE))

\* startRecording up to its await.  status: "done" (it ended in its catch block),
\* "await" (suspended at resume(); the call is in startCalls) or "go" (not
\* suspended: it runs on with the captured locals in call).
startRecording(w, ctxState) ==
  LET a == setError(w, "")
      none == [handler |-> "startRecording", stream |-> 0, context |-> 0, audio |-> 0]
  IN IF ~runtime.MediaRecorder
     THEN [w |-> startRecordingCatch(a, NoMediaRecorderMessage), status |-> "done", call |-> none]
     ELSE IF a.streamRef = 0
     THEN [w |-> startRecordingCatch(a, NotInitializedMessage), status |-> "done", call |-> none]
     ELSE IF ~runtime.videoTrack
     THEN [w |-> startRecordingCatch(a, NoCameraTrackMessage), status |-> "done", call |-> none]
     ELSE IF a.variant = "monitoring"
     THEN LET m == enableAudioMeterBegin(a, runtime.AudioContext, ctxState)
              call == [handler |-> "startRecording", stream |-> a.streamRef,
                       context |-> m.w.audioContextRef, audio |-> 0]
          IN IF m.await
             THEN [w |-> [m.w EXCEPT !.startCalls = Append(@, call)], status |-> "await", call |-> call]
             ELSE [w |-> m.w, status |-> "go", call |-> call]
     ELSE LET b == cleanupAudioGraph(a)
              g == makeProcessedAudioStream(b, runtime.AudioContext, ctxState)
              call == [handler |-> "startRecording", stream |-> a.streamRef,
                       context |-> g.w.audioContextRef,
                       audio |-> g.w.audioContextRef]
          IN IF g.threw # ""
             THEN [w |-> startRecordingCatch(g.w, g.threw), status |-> "done", call |-> none]
             ELSE IF g.w.contexts[g.w.audioContextRef] = "suspended"
             THEN [w |-> [g.w EXCEPT !.startCalls = Append(@, call)], status |-> "await", call |-> call]
             ELSE [w |-> g.w, status |-> "go", call |-> call]

\* One suspended startRecording runs on after its resume() settled.
startRecordingResumed(w, call, env) ==
  startRecordingRest(IF w.variant = "monitoring" THEN enableAudioMeterEnd(w) ELSE w, call, env)

\* The suspended invocations calls (of startRecording, and of enableAudioMeter
\* by the "Enable meter" button) run on one after the other, in call order,
\* call i meeting the runtime behaviour envs[i].
RECURSIVE resumeAll(_, _, _, _)
resumeAll(w, calls, envs, i) ==
  IF i > Len(calls) THEN w
  ELSE resumeAll(IF calls[i].handler = "enableAudioMeter"
                 THEN enableAudioMeterEnd(w)
                 ELSE startRecordingResumed(w, calls[i], envs[i]), calls, envs, i + 1)

\* A variant that also resets the recording flag when there is nothing to stop.
stopRecording_resetsFlag(w) ==
  IF w.recorderRef # 0 /\ w.recorders[w.recorderRef].state # "inactive"
  THEN [w EXCEPT !.recorders[w.recorderRef].state = "inactive",
                 !.recorders[w.recorderRef].stopQueued = TRUE]
  ELSE setIsRecording(w, FALSE)

\* A variant of stopRecording that lets go of the stream.
stopRecording_releases(w) == cleanupStreamOnly(w)

stopRecording(w) ==
  IF w.recorderRef # 0 /\ w.recorders[w.recorderRef].state # "inactive"
  THEN [w EXCEPT !.recorders[w.recorderRef].state = "inactive",
                 !.recorders[w.recorderRef].stopQueued = TRUE]
  ELSE w

\* recorder.ondataavailable of recorder r for a chunk of the given size.  A chunk
\* is named by its recorder and its position among the chunks of that recorder.
ondataavailable(w, r, size) ==
  LET a == [w EXCEPT !.recorders[r].sent = Append(@, size)]
  IN IF size > 0
     THEN [a EXCEPT !.chunksRef = Append(@, [recorder |-> r, seq |-> Len(a.recorders[r].sent)])]
     ELSE a

\* A variant of recorder.onerror that reports nothing.
onerror_silent(w) == w

onerror(w) == setError(w, RecordingErrorMessage)

\* triggerDownload(blob, mimeType) at wall clock now; threw: it raised before it
\* returned.  deliveries is the record of its invocations.
triggerDownload(w, r, blob, mimeType, now, threw) ==
  LET ext == guessExtensionFromMime(mimeType)
  IN [w EXCEPT !.deliveries =
        Append(@, [recorder |-> r, chunks |-> blob.chunks, type |-> blob.type,
                   mimeType |-> mimeType, ext |-> ext, at |-> now,
                   filename |-> makeTimestampedFilename(ext, now), threw |-> threw])]

\* A variant of recorder.onstop that delivers nothing when no chunk is buffered.
onstop_skipEmpty(w, r, now, threw) ==
  LET a == setIsRecording(stopTimer(w), FALSE)
      chosenMime == a.recorders[r].chosenMime
      finalMime == IF chosenMime # "" THEN chosenMime ELSE a.recorders[r].mimeType
      blob == [chunks |-> a.chunksRef, type |-> IF finalMime # "" THEN finalMime ELSE "video/webm"]
      b == [a EXCEPT !.chunksRef = <<>>]
      c == IF a.chunksRef = <<>> THEN b ELSE triggerDownload(b, r, blob, finalMime, now, threw)
  IN IF threw THEN c
     ELSE IF c.variant = "shaping" THEN cleanupAudioGraph(c)
     ELSE c

\* A variant of recorder.onstop that resets the buffer after the delivery.
onstop_clearAfterDelivery(w, r, now, threw) ==
  LET a == setIsRecording(stopTimer(w), FALSE)
      chosenMime == a.recorders[r].chosenMime
      finalMime == IF chosenMime # "" THEN chosenMime ELSE a.recorders[r].mimeType
      blob == [chunks |-> a.chunksRef, type |-> IF finalMime # "" THEN finalMime ELSE "video/webm"]
      c == triggerDownload(a, r, blob, finalMime, now, threw)
      d == [c EXCEPT !.chunksRef = <<>>]
  IN IF threw THEN c
     ELSE IF d.variant = "shaping" THEN cleanupAudioGraph(d)
     ELSE d

\* A variant of recorder.onstop that leaves isRecording as it is.
onstop_keepsFlag(w, r, now, threw) ==
  LET a == stopTimer(w)
      chosenMime == a.recorders[r].chosenMime
      finalMime == IF chosenMime # "" THEN chosenMime ELSE a.recorders[r].mimeType
      blob == [chunks |-> a.chunksRef, type |-> IF finalMime # "" THEN finalMime ELSE "video/webm"]
      b == [a EXCEPT !.chunksRef = <<>>]
      c == triggerDownload(b, r, blob, finalMime, now, threw)
  IN IF threw THEN c
     ELSE IF c.variant = "shaping" THEN cleanupAudioGraph(c)
     ELSE c

\* recorder.onstop of recorder r.
onstop(w, r, now, threw) ==
  LET a == setIsRecording(stopTimer(w), FALSE)
      chosenMime == a.recorders[r].chosenMime
      finalMime == IF chosenMime # "" THEN chosenMime ELSE a.recorders[r].mimeType
      blob == [chunks |-> a.chunksRef, type |-> IF finalMime # "" THEN finalMime ELSE "video/webm"]
      b == [a EXCEPT !.chunksRef = <<>>]
      c == triggerDownload(b, r, blob, finalMime, now, threw)
  IN IF threw THEN c
     ELSE IF c.variant = "shaping" THEN cleanupAudioGraph(c)
     ELSE c

\* The cleanup function of the mount effect.
effectCleanup(w) ==
  cleanupStreamOnly(cleanupAudioGraph(stopRecording(stopTimer(w))))

----------------------------------------------------------------------------
(* What the runtime and the wall clock may do in a run.                    *)

\* recorder.mimeType of a recorder started without a codec string.
ReportedTypes ==
  {"", "video/webm;codecs=vp8,opus", "video/mp4", "video/MP4",
   "video/x-matroska;codecs=avc1,opus"}

ProbeMatrices == [1..Len(candidates) -> ProbeAnswers]
AcceptPatterns == [1..Bare -> BOOLEAN]

\* The behaviours of the runtime towards the first recording of a session: the
\* first supported candidate is any one or none (the probes before it throw), the
\* constructor accepts from any one rung on, or only without bitrates, or never.
FirstSupported == { [j \in 1..Len(candidates) |->
                       IF j = i THEN "yes" ELSE IF j < i THEN "throw" ELSE "no"] :
                    i \in 1..(Len(candidates) + 1) }
AcceptFrom == { [j \in 1..Bare |-> j >= i] : i \in 1..(Bare + 1) }
AllEncoderEnvs ==
  [probe : FirstSupported, accept : AcceptFrom, message : {"", "NotSupportedError"},
   startThrows : BOOLEAN, reported : ReportedTypes]

AllYes == [i \in 1..Len(candidates) |-> "yes"]
AllNo == [i \in 1..Len(candidates) |-> "no"]
AcceptAll == [i \in 1..Bare |-> TRUE]
AcceptBareOnly == [i \in 1..Bare |-> i = Bare]
AcceptNone == [i \in 1..Bare |-> FALSE]

\* The behaviours explored when several recordings interleave: every codec
\* supported and every construction accepted; no codec supported and only the
\* construction without bitrate accepted; no construction accepted; start()
\* throwing.
SessionEncoderEnvs ==
  { [probe |-> AllYes, accept |-> AcceptAll, message |-> "", startThrows |-> FALSE,
     reported |-> "video/webm;codecs=vp8,opus"],
    [probe |-> AllNo, accept |-> AcceptBareOnly, message |-> "", startThrows |-> FALSE,
     reported |-> "video/webm;codecs=vp8,opus"],
    [probe |-> AllYes, accept |-> AcceptNone, message |-> "", startThrows |-> FALSE,
     reported |-> "video/webm;codecs=vp8,opus"],
    [probe |-> AllYes, accept |-> AcceptAll, message |-> "", startThrows |-> TRUE,
     reported |-> "video/webm;codecs=vp8,opus"] }

AllThrow == [i \in 1..Len(candidates) |-> "throw"]

\* What a start may meet: every codec supported, none, or a probe that throws;
\* constructions accepted from any one rung on, only without bitrates, or never;
\* an exception with or without a message; start() throwing or not.
StartEnvs ==
  [probe : {AllYes, AllNo, AllThrow}, accept : AcceptFrom, message : {"", "NotSupportedError"},
   startThrows : BOOLEAN, reported : {"video/webm;codecs=vp8,opus"}]

\* The behaviours explored in runs with failing starts.
FailingStartEnvs ==
  { [probe |-> AllYes, accept |-> AcceptAll, message |-> "", startThrows |-> FALSE,
     reported |-> "video/webm;codecs=vp8,opus"],
    [probe |-> AllYes, accept |-> AcceptAll, message |-> "", startThrows |-> TRUE,
     reported |-> "video/webm;codecs=vp8,opus"],
    [probe |-> AllThrow, accept |-> AcceptNone, message |-> "NotSupportedError",
     startThrows |-> FALSE, reported |-> "video/webm;codecs=vp8,opus"] }

\* A runtime that supports every codec and accepts every construction.
FaultEncoderEnvs ==
  { [probe |-> AllYes, accept |-> AcceptAll, message |-> "", startThrows |-> FALSE,
     reported |-> "video/webm;codecs=vp8,opus"] }

\* Samples of the analyser: bytes, and floats in units of 1/Unit (a float sample
\* is not limited to [-1, 1]).
ByteSamples == {0, 1, 128, 253, 255}
FloatSamples == {-192, -128, 0, 125, 126, 192}
\* A quiet sample and one at full scale (float 0 and Unit; byte 128 and 0).
ClipSamples == {0, Unit}
\* Milliseconds between two frame callbacks.
FrameGaps == {30, 450, 900}
SteadyFrames == {60}

\* Wall clocks read at a stop callback.
AllClocks ==
  { [year |-> 2026, month |-> 10, date |-> 3, hours |-> 14, minutes |-> 30, seconds |-> 59],
    [year |-> 2026, month |-> 0, date |-> 1, hours |-> 0, minutes |-> 0, seconds |-> 0],
    [year |-> 1999, month |-> 11, date |-> 31, hours |-> 23, minutes |-> 59, seconds |-> 59],
    [year |-> 2027, month |-> 8, date |-> 9, hours |-> 9, minutes |-> 5, seconds |-> 7] }

SessionClocks ==
  { [year |-> 2026, month |-> 10, date |-> 3, hours |-> 14, minutes |-> 30, seconds |-> 59] }

----------------------------------------------------------------------------
(* Initial state: the component has been mounted and its mount effect has  *)
(* run.  Under React.StrictMode (src/src/VideoRecorder.jsx wraps the app   *)
(* in it) a development build runs the effect, its cleanup and the effect  *)
(* again on the same component instance.                                   *)

Blank(v) ==
  [variant |-> v, mounted |-> TRUE,
   isReady |-> FALSE, isRecording |-> FALSE, elapsedSec |-> 0, error |-> "",
   isInitializing |-> FALSE, isAudioMeterEnabled |-> FALSE,
   rms |-> 0, peak |-> 0, isClipping |-> FALSE,
   lastClipAtMsRef |-> 0, meterLastUiUpdateMsRef |-> 0,
   streamRef |-> 0, recorderRef |-> 0, chunksRef |-> <<>>, timerIntervalRef |-> 0,
   audioContextRef |-> 0, analyserRef |-> 0, audioDestinationRef |-> 0,
   meterRafRef |-> 0, videoSrc |-> 0,
   streams |-> <<>>, contexts |-> <<>>, sources |-> <<>>, recorders |-> <<>>,
   intervals |-> 0, frames |-> {},
   initPending |-> 0, playPending |-> 0, startCalls |-> <<>>, deliveries |-> <<>>]

Mounted(v, strict, gum) ==
  IF strict
  THEN initMedia(effectCleanup(initMedia(Blank(v), gum)), gum)
  ELSE initMedia(Blank(v), gum)

InitWorld(w) ==
  /\ variant = w.variant
  /\ mounted = w.mounted
  /\ isReady = w.isReady
  /\ isRecording = w.isRecording
  /\ elapsedSec = w.elapsedSec
  /\ error = w.error
  /\ isInitializing = w.isInitializing
  /\ isAudioMeterEnabled = w.isAudioMeterEnabled
  /\ rms = w.rms
  /\ peak = w.peak
  /\ isClipping = w.isClipping
  /\ lastClipAtMsRef = w.lastClipAtMsRef
  /\ meterLastUiUpdateMsRef = w.meterLastUiUpdateMsRef
  /\ clock = PageLoadedMs
  /\ clipAt = -1
  /\ publishedAt = -1
  /\ frames = w.frames
  /\ streamRef = w.streamRef
  /\ recorderRef = w.recorderRef
  /\ chunksRef = w.chunksRef
  /\ timerIntervalRef = w.timerIntervalRef
  /\ audioContextRef = w.audioContextRef
  /\ analyserRef = w.analyserRef
  /\ audioDestinationRef = w.audioDestinationRef
  /\ meterRafRef = w.meterRafRef
  /\ videoSrc = w.videoSrc
  /\ streams = w.streams
  /\ contexts = w.contexts
  /\ sources = w.sources
  /\ recorders = w.recorders
  /\ intervals = w.intervals
  /\ initPending = w.initPending
  /\ playPending = w.playPending
  /\ startCalls = w.startCalls
  /\ deliveries = w.deliveries
  /\ lastOp = "mount"

\* videoTrack: the streams getUserMedia resolves with carry a video track (they
\* do in a browser, where video was requested).  closeThrows: AudioContext.close()
\* throws or rejects.  floatData: the analyser has getFloatTimeDomainData.
Runtimes ==
  [getUserMedia : BOOLEAN, MediaRecorder : BOOLEAN, AudioContext : BOOLEAN,
   videoTrack : {TRUE}, closeThrows : {FALSE}, floatData : {TRUE},
                   audioTrack : {TRUE}, graphThrows : {FALSE}]

Idle == [phase |-> "idle"]

Init ==
  /\ runtime \in Runtimes
  /\ \E v \in {"monitoring", "shaping"}, strict \in BOOLEAN :
        InitWorld(Mounted(v, strict, runtime.getUserMedia))
  /\ negotiation = Idle

\* A production build: React.StrictMode runs the mount effect once.
InitProduction ==
  /\ runtime \in Runtimes
  /\ \E v \in {"monitoring", "shaping"} : InitWorld(Mounted(v, FALSE, runtime.getUserMedia))
  /\ negotiation = Idle

----------------------------------------------------------------------------
(* Actions: user gestures (enabled as the rendered controls are), the      *)
(* runtime's callbacks, and the continuations of the async handlers.       *)

\* "Retry" is disabled while recording or initializing; "Retry setup" is offered
\* by the error overlay.
InitMediaCall ==
  /\ mounted
  /\ (~isRecording /\ ~isInitializing) \/ error # ""
  /\ initPending + playPending < MaxPending
  /\ Commit(initMedia(World, runtime.getUserMedia), "initMedia")

GetUserMediaResolves ==
  /\ initPending > 0
  /\ Objects(World) < MaxObjects
  /\ Commit(initMediaResolved(World), "getUserMediaResolved")

GetUserMediaRejects ==
  /\ initPending > 0
  /\ \E e \in Rejections : Commit(initMediaRejected(World, e), e.name)

PlaySettles ==
  /\ playPending > 0
  /\ Commit(initMediaPlayed(World), "played")

canStart == isReady /\ ~isRecording /\ ~isInitializing /\ runtime.MediaRecorder

canStop == isRecording

\* A click on "Start Recording"; the handler runs to its await or, when it does
\* not suspend, to its end.
StartRecordingCall(envs) ==
  /\ mounted /\ canStart
  /\ Len(startCalls) < MaxPending
  /\ \E ctxState \in NewContextStates, env \in envs :
       LET r == startRecording(World, ctxState)
           w == IF r.status = "go" THEN startRecordingRest(r.w, r.call, env) ELSE r.w
       IN /\ Objects(w) <= MaxObjects
          /\ Commit(w, "startRecording")

\* resume() of context c settles: the context runs, or the promise is rejected
\* (always so for a closed context) and the rejection swallowed.  The runtime
\* settles every pending resume() of one context in one task, so all invocations
\* waiting for c run on back to back.
ResumeSettles(envs) ==
  \E c \in 1..Len(contexts) :
    LET Waits(call) == call.context = c
        Others(call) == call.context # c
        calls == SelectSeq(startCalls, Waits)
    IN /\ calls # <<>>
       /\ \E st \in (IF contexts[c] = "suspended" THEN {"running", "suspended"} ELSE {contexts[c]}),
             es \in [1..Len(calls) -> envs] :
            LET a == [World EXCEPT !.contexts[c] = st,
                                   !.startCalls = SelectSeq(startCalls, Others)]
                w == resumeAll(a, calls, es, 1)
            IN /\ Objects(w) <= MaxObjects
               /\ Commit(w, IF \A i \in 1..Len(calls) : calls[i].handler = "enableAudioMeter"
                            THEN "enableAudioMeterResumed"
                            ELSE "startRecordingResumed")

\* A click on "Enable meter" (monitoring variant; shown while the session is
\* ready and the meter is not enabled): enableAudioMeter runs to its await or
\* to its end.
EnableAudioMeterCall ==
  /\ mounted /\ variant = "monitoring"
  /\ isReady /\ ~isAudioMeterEnabled
  /\ Len(startCalls) < MaxPending
  /\ \E ctxState \in NewContextStates :
       LET m == enableAudioMeterBegin(World, runtime.AudioContext, ctxState)
           call == [handler |-> "enableAudioMeter", stream |-> streamRef,
                    context |-> m.w.audioContextRef, audio |-> 0]
           w == IF m.await THEN [m.w EXCEPT !.startCalls = Append(@, call)] ELSE m.w
       IN /\ Objects(w) <= MaxObjects
          /\ Commit(w, "enableAudioMeter")

\* A click on "Stop Recording".  lastOp tells whether recorder.stop() was called.
StopRecordingCall ==
  /\ mounted /\ canStop
  /\ Commit(stopRecording(World),
            IF stopRecording(World) = World THEN "stopRecording: no-op" ELSE "stopRecording")

\* The runtime delivers a chunk of recorder r: while it records, and once more or
\* several times between stop() and the stop event.
DataAvailable ==
  \E r \in 1..Len(recorders), size \in {0, 1} :
    /\ recorders[r].state = "recording" \/ recorders[r].stopQueued
    /\ Objects(World) < MaxObjects
    /\ Commit(ondataavailable(World, r, size), "ondataavailable")

\* The runtime fires the stop event of recorder r.
StopEvent(clocks) ==
  \E r \in 1..Len(recorders), now \in clocks, threw \in BOOLEAN :
    /\ recorders[r].stopQueued
    /\ Commit(onstop([World EXCEPT !.recorders[r].stopQueued = FALSE], r, now, threw), "onstop")

\* The runtime reports an error of recorder r: it inactivates the recorder, fires
\* error, and queues the last chunk and the stop event.
ErrorEvent ==
  \E r \in 1..Len(recorders) :
    /\ recorders[r].state = "recording"
    /\ Commit(onerror([World EXCEPT !.recorders[r].state = "inactive",
                                    !.recorders[r].faulted = TRUE,
                                    !.recorders[r].stopQueued = TRUE]), "onerror")

\* All tracks a recorder records have been stopped: the runtime may inactivate
\* the recorder and queue its stop event.  (The shaping variant records the
\* graph's output track, which cleanupStreamOnly does not stop.)
TracksEnded ==
  \E r \in 1..Len(recorders) :
    /\ recorders[r].state = "recording"
    /\ recorders[r].audio = 0
    /\ ~streams[recorders[r].stream]
    /\ Commit([World EXCEPT !.recorders[r].state = "inactive",
                            !.recorders[r].stopQueued = TRUE], "tracksEnded")

\* The interval callback of startTimer.
TimerTick ==
  /\ intervals > 0
  /\ elapsedSec < MaxElapsed
  /\ Commit(setElapsedSec(World, elapsedSec + 1), "timerTick")

DismissError ==
  /\ mounted /\ error # ""
  /\ Commit(setError(World, ""), "dismiss")

\* The component is unmounted for good: React detaches the refs to its elements
\* and runs the effect's cleanup.
Unmount ==
  /\ mounted
  /\ Commit(effectCleanup([World EXCEPT !.mounted = FALSE]), "unmount")

\* The browser runs a pending frame callback of the meter loop, dt ms after the
\* last one, with a window of samples from the given set.
MeterTick(samples, gaps) ==
  \E f \in frames, data \in [1..fftSize -> samples], dt \in gaps :
    /\ clock + dt <= MaxClock
    /\ \E w \in {tick([World EXCEPT !.frames = @ \ {f}], data, runtime.floatData, clock + dt)} :
         /\ Store(w, "tick")
         /\ publishedAt' = IF w.meterLastUiUpdateMsRef = clock + dt
                           THEN clock + dt ELSE publishedAt
    /\ clock' = clock + dt
    /\ clipAt' = IF \E i \in 1..fftSize :
                      abs(IF runtime.floatData THEN data[i] ELSE data[i] - 128) * 100
                         >= ClipPeakPercent * Unit
                 THEN clock + dt ELSE clipAt
    /\ UNCHANGED <<runtime, negotiation>>

Next ==
  \/ EnableAudioMeterCall
  \/ InitMediaCall
  \/ GetUserMediaResolves
  \/ GetUserMediaRejects
  \/ PlaySettles
  \/ StartRecordingCall(SessionEncoderEnvs)
  \/ ResumeSettles(SessionEncoderEnvs)
  \/ StopRecordingCall
  \/ DataAvailable
  \/ StopEvent(SessionClocks)
  \/ ErrorEvent
  \/ TracksEnded
  \/ TimerTick
  \/ DismissError
  \/ Unmount

Spec == Init /\ [][Next]_vars

\* The recording session alone: acquisition succeeds, then start requests, stop
\* requests, chunk callbacks and stop callbacks interleave freely.
NextSession ==
  \/ GetUserMediaResolves
  \/ PlaySettles
  \/ StartRecordingCall(SessionEncoderEnvs)
  \/ ResumeSettles(SessionEncoderEnvs)
  \/ StopRecordingCall
  \/ DataAvailable
  \/ StopEvent(SessionClocks)

SpecSession == InitProduction /\ [][NextSession]_vars

\* Acquisition alone: initMedia invocations, their outcomes, and unmount.
NextAcquire ==
  \/ InitMediaCall
  \/ GetUserMediaResolves
  \/ GetUserMediaRejects
  \/ PlaySettles
  \/ DismissError
  \/ Unmount

SpecAcquire == Init /\ [][NextAcquire]_vars

\* A runtime that dispatches the stop event of a recorder a second time, after
\* right after the stop handler has run for it.
StopEventAgain ==
  \E r \in 1..Len(recorders), now \in SessionClocks :
    /\ lastOp = "onstop"
    /\ recorders[r].started /\ recorders[r].state = "inactive" /\ ~recorders[r].stopQueued
    /\ deliveries # <<>> /\ deliveries[Len(deliveries)].recorder = r
    /\ Cardinality({k \in 1..Len(deliveries) : deliveries[k].recorder = r}) = 1
    /\ Commit(onstop(World, r, now, FALSE), "onstop again")

NextRefire == NextSession \/ StopEventAgain

SpecRefire == InitProduction /\ [][NextRefire]_vars

\* Recording sessions in which the runtime does fire every stop event it has
\* queued (MediaRecorder queues dataavailable and then stop as tasks once stop()
\* was called).
NextLive ==
  \/ GetUserMediaResolves
  \/ PlaySettles
  \/ StartRecordingCall(FaultEncoderEnvs)
  \/ ResumeSettles(FaultEncoderEnvs)
  \/ StopRecordingCall
  \/ DataAvailable
  \/ StopEvent(SessionClocks)

\* A stop event is queued: StopEvent is enabled.
StopEventQueued == \E r \in 1..Len(recorders) : recorders[r].stopQueued

\* Weak fairness of StopEvent, that is WF_vars(StopEvent(SessionClocks)), with
\* the enabling condition of StopEvent written out.
StopEventFair ==
  \/ []<>(~StopEventQueued)
  \/ []<><<StopEvent(SessionClocks)>>_vars

SpecLive == InitProduction /\ [][NextLive]_vars /\ StopEventFair

\* Starts that succeed and starts that fail: the runtime may lack MediaRecorder
\* or AudioContext, the camera stream may have no video track, and the
\* constructions and start() may throw.
InitStart ==
  /\ runtime \in [getUserMedia : {TRUE}, MediaRecorder : BOOLEAN, AudioContext : BOOLEAN,
                   videoTrack : BOOLEAN, closeThrows : {FALSE}, floatData : {TRUE},
                   audioTrack : {TRUE}, graphThrows : {FALSE}]
  /\ \E v \in {"monitoring", "shaping"} : InitWorld(Mounted(v, FALSE, runtime.getUserMedia))
  /\ negotiation = Idle

NextStart ==
  \/ GetUserMediaResolves
  \/ PlaySettles
  \/ StartRecordingCall(FailingStartEnvs)
  \/ ResumeSettles(FailingStartEnvs)
  \/ StopRecordingCall
  \/ StopEvent(SessionClocks)
  \/ TimerTick

SpecStart == InitStart /\ [][NextStart]_vars

\* The audio graph: the runtime may lack AudioContext, the stream may carry no
\* audio track, and a node constructor may throw; the graph is built by "Enable
\* meter" and by startRecording and torn down by initMedia, by a failed start
\* and (shaping) by the stop callback.
InitGraph ==
  /\ runtime \in [getUserMedia : {TRUE}, MediaRecorder : {TRUE}, AudioContext : BOOLEAN,
                   videoTrack : {TRUE}, closeThrows : {FALSE}, floatData : {TRUE},
                   audioTrack : BOOLEAN, graphThrows : BOOLEAN]
  /\ \E v \in {"monitoring", "shaping"} : InitWorld(Mounted(v, FALSE, runtime.getUserMedia))
  /\ negotiation = Idle

NextGraph ==
  \/ InitMediaCall
  \/ GetUserMediaResolves
  \/ PlaySettles
  \/ EnableAudioMeterCall
  \/ StartRecordingCall(FaultEncoderEnvs)
  \/ ResumeSettles(FaultEncoderEnvs)
  \/ StopRecordingCall
  \/ StopEvent(SessionClocks)

SpecGraph == InitGraph /\ [][NextGraph]_vars

\* The meter loop across teardown and re-enable: the "Enable meter" button,
\* re-acquisitions and frames 30 or 60 ms apart over a half-scale signal.
ThrottleSamples == {64}
ThrottleGaps == {30, 60}

InitThrottle ==
  /\ runtime = [getUserMedia |-> TRUE, MediaRecorder |-> TRUE, AudioContext |-> TRUE,
                videoTrack |-> TRUE, closeThrows |-> FALSE, floatData |-> TRUE,
                audioTrack |-> TRUE, graphThrows |-> FALSE]
  /\ InitWorld(Mounted("monitoring", FALSE, runtime.getUserMedia))
  /\ negotiation = Idle

NextThrottle ==
  \/ InitMediaCall
  \/ GetUserMediaResolves
  \/ PlaySettles
  \/ EnableAudioMeterCall
  \/ ResumeSettles(FaultEncoderEnvs)
  \/ MeterTick(ThrottleSamples, ThrottleGaps)

SpecThrottle == InitThrottle /\ [][NextThrottle]_vars

\* What runs between two acquisitions: recordings that start or fail to start,
\* stop requests, the recorder's chunk and stop callbacks, the "Enable meter"
\* button and the meter's frame callback, on a stream acquired once.
PreviewGaps == {1200}

InitPreview ==
  /\ runtime \in [getUserMedia : {TRUE}, MediaRecorder : {TRUE}, AudioContext : BOOLEAN,
                   videoTrack : {TRUE}, closeThrows : {FALSE}, floatData : {TRUE},
                   audioTrack : {TRUE}, graphThrows : {FALSE}]
  /\ \E v \in {"monitoring", "shaping"} : InitWorld(Mounted(v, FALSE, runtime.getUserMedia))
  /\ negotiation = Idle

NextPreview ==
  \/ GetUserMediaResolves
  \/ PlaySettles
  \/ EnableAudioMeterCall
  \/ StartRecordingCall(FailingStartEnvs)
  \/ ResumeSettles(FailingStartEnvs)
  \/ StopRecordingCall
  \/ DataAvailable
  \/ StopEvent(SessionClocks)
  \/ MeterTick(ThrottleSamples, PreviewGaps)

SpecPreview == InitPreview /\ [][NextPreview]_vars

\* The level meter of the monitoring variant, started by startRecording.
InitMeter ==
  /\ runtime \in [getUserMedia : {TRUE}, MediaRecorder : {TRUE}, AudioContext : {TRUE},
                   videoTrack : {TRUE}, closeThrows : {FALSE}, floatData : BOOLEAN,
                   audioTrack : {TRUE}, graphThrows : {FALSE}]
  /\ InitWorld(Mounted("monitoring", FALSE, runtime.getUserMedia))
  /\ negotiation = Idle

\* The clip indicator: quiet and full-scale windows at uneven frame gaps.
NextMeter ==
  \/ GetUserMediaResolves
  \/ PlaySettles
  \/ StartRecordingCall(FaultEncoderEnvs)
  \/ ResumeSettles(FaultEncoderEnvs)
  \/ MeterTick(ClipSamples, FrameGaps)

SpecMeter == InitMeter /\ [][NextMeter]_vars

\* The published levels: every window of the analyser at a steady frame rate.
NextLevels ==
  \/ GetUserMediaResolves
  \/ PlaySettles
  \/ StartRecordingCall(FaultEncoderEnvs)
  \/ ResumeSettles(FaultEncoderEnvs)
  \/ MeterTick(IF runtime.floatData THEN FloatSamples ELSE ByteSamples, SteadyFrames)

SpecLevels == InitMeter /\ [][NextLevels]_vars

\* Recording sessions ended by retried acquisitions and by unmount, with an
\* AudioContext.close() that may fail.
InitTeardown ==
  /\ runtime \in [getUserMedia : {TRUE}, MediaRecorder : {TRUE}, AudioContext : {TRUE},
                   videoTrack : {TRUE}, closeThrows : BOOLEAN, floatData : {TRUE},
                   audioTrack : {TRUE}, graphThrows : {FALSE}]
  /\ \E v \in {"monitoring", "shaping"}, strict \in BOOLEAN :
        InitWorld(Mounted(v, strict, runtime.getUserMedia))
  /\ negotiation = Idle

NextTeardown ==
  \/ InitMediaCall
  \/ GetUserMediaResolves
  \/ PlaySettles
  \/ StartRecordingCall(FaultEncoderEnvs)
  \/ ResumeSettles(FaultEncoderEnvs)
  \/ StopRecordingCall
  \/ StopEvent(SessionClocks)
  \/ Unmount

SpecTeardown == InitTeardown /\ [][NextTeardown]_vars

\* Recording sessions with acquisitions retried in between.
NextRetry ==
  \/ InitMediaCall
  \/ GetUserMediaResolves
  \/ PlaySettles
  \/ StartRecordingCall(SessionEncoderEnvs)
  \/ ResumeSettles(SessionEncoderEnvs)
  \/ StopRecordingCall
  \/ StopEvent(SessionClocks)

SpecRetry == InitProduction /\ [][NextRetry]_vars

\* Recording sessions with recorder errors and a running elapsed timer.
NextFault ==
  \/ GetUserMediaResolves
  \/ PlaySettles
  \/ StartRecordingCall(FaultEncoderEnvs)
  \/ ResumeSettles(FaultEncoderEnvs)
  \/ StopRecordingCall
  \/ StopEvent(SessionClocks)
  \/ ErrorEvent
  \/ TimerTick

SpecFault == InitProduction /\ [][NextFault]_vars

\* The first recording of a session under every behaviour of the runtime and
\* every wall clock.
NextEncoder ==
  \/ GetUserMediaResolves
  \/ PlaySettles
  \/ (recorders = <<>> /\ startCalls = <<>> /\ StartRecordingCall(AllEncoderEnvs))
  \/ ResumeSettles(AllEncoderEnvs)
  \/ StopRecordingCall
  \/ DataAvailable
  \/ StopEvent(AllClocks)

SpecEncoder == InitProduction /\ [][NextEncoder]_vars

\* The negotiation as a function of the runtime's behaviour: every support matrix
\* and every accept/reject pattern is an input.
InitNegotiate ==
  /\ runtime = [getUserMedia |-> TRUE, MediaRecorder |-> TRUE, AudioContext |-> TRUE,
                videoTrack |-> TRUE, closeThrows |-> FALSE, floatData |-> TRUE,
                audioTrack |-> TRUE, graphThrows |-> FALSE]
  /\ InitWorld(Mounted("monitoring", FALSE, TRUE))
  /\ negotiation \in [phase : {"input"}, mr : BOOLEAN, probe : ProbeMatrices,
                      accept : AcceptPatterns]

Negotiate ==
  /\ negotiation.phase = "input"
  /\ negotiation' = [phase |-> "done", mr |-> negotiation.mr, probe |-> negotiation.probe,
                     accept |-> negotiation.accept,
                     mimeType |-> pickMimeType(negotiation.mr, negotiation.probe),
                     recorder |-> constructRecorder(negotiation.accept)]
  /\ UNCHANGED <<variant, runtime, mounted, isReady, isRecording, elapsedSec, error,
                 isInitializing, isAudioMeterEnabled, rms, peak, isClipping,
                 lastClipAtMsRef, meterLastUiUpdateMsRef, clock, clipAt, streamRef, recorderRef, chunksRef,
                 timerIntervalRef, audioContextRef, analyserRef, audioDestinationRef,
                 meterRafRef, videoSrc, streams, contexts, sources, recorders, intervals,
                 frames, initPending, playPending, startCalls, publishedAt, deliveries,
                 lastOp>>

SpecNegotiate == InitNegotiate /\ [][Negotiate]_vars

\* ---------------------------------------------------------------------------
\* Container negotiation and the bitrate ladder
\* ---------------------------------------------------------------------------

C1_Order ==
  << "video/mp4;codecs=avc1.42E01E,mp4a.40.2", "video/mp4", "video/webm;codecs=vp9,opus",
     "video/webm;codecs=vp8,opus", "video/webm" >>

C1_Supported ==
  {i \in 1..Len(C1_Order) : negotiation.mr /\ negotiation.probe[i] = "yes"}

\* C1: pickMimeType returns the first candidate, in the order MP4 with H.264/AAC,
\* MP4, WebM VP9/Opus, WebM VP8/Opus, WebM, that the capability probe reports
\* supported; it returns the empty string when MediaRecorder is missing or when the
\* probe is missing, throws or answers no for every candidate.  A throwing probe
\* counts as "not supported" for that candidate and nothing is raised.
C1_FirstSupportedCandidate ==
  negotiation.phase = "done" =>
    IF C1_Supported = {}
    THEN negotiation.mimeType = ""
    ELSE \E i \in C1_Supported :
           /\ \A j \in C1_Supported : i <= j
           /\ negotiation.mimeType = C1_Order[i]

\* The probe throws for the first candidate, answers no for the second and yes for
\* the third and the fourth: the third is returned.
C1_Witness ==
  /\ negotiation.phase = "done"
  /\ negotiation.mr
  /\ negotiation.probe[1] = "throw" /\ negotiation.probe[2] = "no"
  /\ negotiation.probe[3] = "yes" /\ negotiation.probe[4] = "yes"
  /\ negotiation.mimeType = "video/webm;codecs=vp9,opus"

C2_Ladder ==
  << <<12000000, 192000>>, <<8000000, 160000>>, <<5000000, 128000>>, <<2500000, 128000>> >>

\* C2: recorder construction attempts the rungs in the fixed order 12M/192k,
\* 8M/160k, 5M/128k, 2.5M/128k (video/audio bits per second).  A rung is attempted
\* only after every earlier rung threw; the first rung whose construction does not
\* throw is the one used and nothing is attempted after it; when every rung throws,
\* the 2.5M/128k floor has been attempted before the ladder is given up.
C2_LadderOrder ==
  negotiation.phase = "done" =>
    LET rec == negotiation.recorder
        log == rec.log
        accept == negotiation.accept
        accepted == {i \in 1..Len(C2_Ladder) : accept[i]}
    IN /\ \A k \in 1..Len(log) :
            /\ log[k].rung = k
            /\ k <= Len(C2_Ladder) =>
                 /\ log[k].videoBitsPerSecond = C2_Ladder[k][1]
                 /\ log[k].audioBitsPerSecond = C2_Ladder[k][2]
            /\ log[k].threw = ~accept[k]
            /\ \A j \in 1..(k - 1) : log[j].threw
       /\ \A i \in accepted :
            (\A j \in accepted : i <= j) =>
               /\ rec.ok /\ rec.rung = i /\ Len(log) = i
               /\ rec.videoBitsPerSecond = C2_Ladder[i][1]
               /\ rec.audioBitsPerSecond = C2_Ladder[i][2]
       /\ accepted = {} =>
            /\ Len(log) > Len(C2_Ladder)
            /\ log[Len(C2_Ladder)].videoBitsPerSecond = 2500000
            /\ log[Len(C2_Ladder)].audioBitsPerSecond = 128000
            /\ log[Len(C2_Ladder)].threw

\* The first three rungs throw and the floor is accepted: the recorder has the
\* floor's bitrates after four constructions.
C2_Witness ==
  /\ negotiation.phase = "done"
  /\ ~negotiation.accept[1] /\ ~negotiation.accept[2] /\ ~negotiation.accept[3]
  /\ negotiation.accept[4]
  /\ Len(negotiation.recorder.log) = 4
  /\ negotiation.recorder.videoBitsPerSecond = 2500000

\* ---------------------------------------------------------------------------
\* Stop, finalize and delivery
\* ---------------------------------------------------------------------------

\* The invocations of triggerDownload made for recorder r.
C4_DeliveriesOf(r) == {k \in 1..Len(deliveries) : deliveries[k].recorder = r}

\* The stop handler of recorder r has run: recording was started on it, it is
\* inactive and no stop event is pending for it.
C4_StopHandled(r) ==
  recorders[r].started /\ recorders[r].state = "inactive" /\ ~recorders[r].stopQueued

\* C4: for every recorder on which recording was started, triggerDownload is
\* invoked exactly once once its stop callback has run, not at all before, and
\* never more than once, whatever the interleaving of start requests, stop
\* requests, chunk callbacks and stop callbacks.
C4_ExactlyOnceDelivery ==
  \A r \in 1..Len(recorders) :
    /\ Cardinality(C4_DeliveriesOf(r)) <= 1
    /\ C4_StopHandled(r) <=> Cardinality(C4_DeliveriesOf(r)) = 1

\* Two recordings were started, stopped and delivered one after the other.
C4_Witness ==
  /\ Len(recorders) >= 2
  /\ C4_StopHandled(1) /\ C4_StopHandled(2)
  /\ Cardinality(C4_DeliveriesOf(1)) = 1 /\ Cardinality(C4_DeliveriesOf(2)) = 1

\* C5: a stop request made when there is no recorder or the recorder is already
\* inactive does not call recorder.stop() (no stop event is queued) and changes
\* nothing of the session: no state, no chunk, no delivery.  Hence two stop
\* requests in a row for one recording yield one stop callback and one delivery.
C5_StopInactiveIsNoOp ==
  /\ [][ (/\ lastOp' \in {"stopRecording", "stopRecording: no-op"}
          /\ (recorderRef = 0 \/ recorders[recorderRef].state = "inactive"))
         => /\ lastOp' = "stopRecording: no-op"
            /\ UNCHANGED <<variant, runtime, mounted, isReady, isRecording, elapsedSec,
                           error, isInitializing, isAudioMeterEnabled, rms, peak,
                           isClipping, lastClipAtMsRef, meterLastUiUpdateMsRef, clock,
                           clipAt, streamRef,
                           recorderRef, chunksRef, timerIntervalRef, audioContextRef,
                           analyserRef, audioDestinationRef, meterRafRef, videoSrc,
                           streams, contexts, sources, recorders, intervals, frames,
                           initPending, playPending, startCalls, publishedAt,
                           deliveries, negotiation>> ]_vars
  /\ [](\A k1, k2 \in 1..Len(deliveries) :
          deliveries[k1].recorder = deliveries[k2].recorder => k1 = k2)

\* A second stop request was made while the stop event of the first was pending.
C5_Witness ==
  /\ lastOp = "stopRecording: no-op"
  /\ recorderRef # 0
  /\ recorders[recorderRef].state = "inactive" /\ recorders[recorderRef].stopQueued
  /\ isRecording

\* C6: when the stop handler runs a second time for a recording that was already
\* finalized, the chunk buffer is empty at that run and triggerDownload is not
\* invoked again.
C6_SecondFinalizeSilent ==
  [][ lastOp' = "onstop again" => (chunksRef = <<>> /\ deliveries' = deliveries) ]_vars

\* C7: after the stop handler has run the chunk buffer is empty, also when
\* triggerDownload raised.
C7_BufferEmptyAfterFinalize ==
  lastOp = "onstop" => chunksRef = <<>>

\* The stop handler ran with a chunk buffered and triggerDownload raised.
C7_Witness ==
  /\ lastOp = "onstop"
  /\ deliveries # <<>>
  /\ deliveries[Len(deliveries)].threw
  /\ deliveries[Len(deliveries)].chunks # <<>>
  /\ chunksRef = <<>>

\* The chunks of non-zero size that recorder r has delivered, in arrival order.
C8_OwnChunks(r) ==
  LET all == [k \in 1..Len(recorders[r].sent) |-> [recorder |-> r, seq |-> k]]
      NonEmpty(c) == recorders[r].sent[c.seq] > 0
  IN SelectSeq(all, NonEmpty)

\* C8: the payload handed to triggerDownload for a recording is exactly the
\* sequence of the non-empty chunks its own recorder delivered, in arrival order:
\* none lost, none duplicated, none of another recording.
C8_PayloadIsOwnChunks ==
  \A k \in 1..Len(deliveries) :
    deliveries[k].chunks = C8_OwnChunks(deliveries[k].recorder)

\* ---------------------------------------------------------------------------
\* The bitrate floor
\* ---------------------------------------------------------------------------

\* C3 as stated: every recorder on which recording was started was constructed
\* with an explicit video bitrate of at least 2,500,000 bits per second.
C3_ExplicitFloor ==
  \A r \in 1..Len(recorders) :
    recorders[r].started => recorders[r].videoBitsPerSecond >= 2500000

\* C3: every recorder on which recording was started was constructed either with
\* an explicit video bitrate of at least 2,500,000 bits per second, or with no
\* explicit bitrate at all after the constructions at all four rungs, the
\* 2,500,000 floor included, threw.  No construction is ever attempted with an
\* explicit video bitrate below 2,500,000.
C3_FloorOrNoBitrate ==
  \A r \in 1..Len(recorders) :
    LET log == recorders[r].log
    IN /\ \A k \in 1..Len(log) :
            log[k].videoBitsPerSecond >= 2500000 \/ (k = 5 /\ log[k].videoBitsPerSecond = 0)
       /\ recorders[r].started =>
            \/ recorders[r].videoBitsPerSecond >= 2500000
            \/ /\ recorders[r].videoBitsPerSecond = 0
               /\ Len(log) = 5
               /\ \A k \in 1..4 : log[k].threw /\ log[k].videoBitsPerSecond > 0
               /\ log[4].videoBitsPerSecond = 2500000
               /\ ~log[5].threw

\* Recording is running on a recorder constructed without bitrates after the four
\* rungs threw.
C3_Witness ==
  \E r \in 1..Len(recorders) :
    /\ recorders[r].started /\ recorders[r].state = "recording"
    /\ recorders[r].videoBitsPerSecond = 0
    /\ Len(recorders[r].log) = 5

\* ---------------------------------------------------------------------------
\* Media type, extension and filename of a delivery
\* ---------------------------------------------------------------------------

\* The media types of the model that contain "mp4" in some spelling.
C9_ContainsMp4 ==
  {"video/mp4;codecs=avc1.42E01E,mp4a.40.2", "video/mp4", "video/MP4"}

C9_Digits == <<"0", "1", "2", "3", "4", "5", "6", "7", "8", "9">>

\* The number written by the decimal digits cs (-1 when cs is not all digits).
RECURSIVE C9_Number(_)
C9_Number(cs) ==
  IF cs = <<>> THEN 0
  ELSE LET last == cs[Len(cs)]
           front == C9_Number(SubSeq(cs, 1, Len(cs) - 1))
       IN IF front < 0 \/ \A d \in 1..10 : C9_Digits[d] # last THEN -1
          ELSE front * 10 + (CHOOSE d \in 1..10 : C9_Digits[d] = last) - 1

\* f is rec-YYYYMMDD-HHMMSS.<ext> for the local time d.
C9_FilenameForm(f, ext, d) ==
  /\ Len(f) = 20 + Len(Chars(ext))
  /\ SubSeq(f, 1, 4) = <<"r", "e", "c", "-">>
  /\ C9_Number(SubSeq(f, 5, 8)) = d.year
  /\ C9_Number(SubSeq(f, 9, 10)) = d.month + 1
  /\ C9_Number(SubSeq(f, 11, 12)) = d.date
  /\ f[13] = "-"
  /\ C9_Number(SubSeq(f, 14, 15)) = d.hours
  /\ C9_Number(SubSeq(f, 16, 17)) = d.minutes
  /\ C9_Number(SubSeq(f, 18, 19)) = d.seconds
  /\ f[20] = "."
  /\ SubSeq(f, 21, Len(f)) = Chars(ext)

\* The container a media type names: its subtype, between "/" and the first ";",
\* in lower case.
C9_Container(type) ==
  LET cs == toLowerCase(Chars(type))
      slash == CHOOSE i \in 1..Len(cs) : cs[i] = "/" /\ \A j \in 1..(i - 1) : cs[j] # "/"
      semis == {i \in 1..Len(cs) : cs[i] = ";"}
      end == IF semis = {} THEN Len(cs) + 1
             ELSE CHOOSE i \in semis : \A j \in semis : i <= j
  IN SubSeq(cs, slash + 1, end - 1)

\* The media type at finalize for delivery k: the codec string negotiated at the
\* start of its recording or, when that is empty, the type the recorder reports.
C9_FinalMime(k) ==
  LET r == deliveries[k].recorder
  IN IF recorders[r].chosenMime # "" THEN recorders[r].chosenMime ELSE recorders[r].mimeType

\* C9 as stated, the agreement in every case: the extension of a delivery is the
\* container named by the type tagged on its blob.
C9_ExtensionAgreesWithContainer ==
  \A k \in 1..Len(deliveries) :
    Chars(deliveries[k].ext) = C9_Container(deliveries[k].type)

\* C9: at finalize the media type is the codec string negotiated at the start of
\* that recording or, when that is empty, the recorder-reported type; the blob is
\* tagged with it (with video/webm when it is empty); the extension is mp4 exactly
\* when the media type contains "mp4" in any letter case and webm otherwise, the
\* empty type included; the filename is rec-YYYYMMDD-HHMMSS.<ext>.  The extension
\* agrees with the container of the blob's type whenever the type was negotiated
\* or the reported type is empty or names an mp4 or webm container.
C9_TypeExtensionFilename ==
  \A k \in 1..Len(deliveries) :
    LET d == deliveries[k]
        r == d.recorder
        final == C9_FinalMime(k)
    IN /\ d.mimeType = final
       /\ d.type = (IF final = "" THEN "video/webm" ELSE final)
       /\ d.ext \in {"mp4", "webm"}
       /\ d.ext = "mp4" <=> final \in C9_ContainsMp4
       /\ C9_FilenameForm(d.filename, d.ext, d.at)
       /\ (recorders[r].chosenMime # "" \/ final = ""
             \/ C9_Container(final) \in {Chars("mp4"), Chars("webm")})
            => Chars(d.ext) = C9_Container(d.type)

\* Nothing was negotiated and the recorder reports video/MP4: the delivery is
\* tagged video/MP4 and named .mp4.
C9_Witness ==
  \E k \in 1..Len(deliveries) :
    /\ recorders[deliveries[k].recorder].chosenMime = ""
    /\ deliveries[k].type = "video/MP4"
    /\ deliveries[k].ext = "mp4"

\* ---------------------------------------------------------------------------
\* Rejected acquisition
\* ---------------------------------------------------------------------------

\* C10: when getUserMedia rejects, the session is in Error: isReady and
\* isInitializing are false, the message is the permission-denied message for
\* NotAllowedError and the device-not-found message for NotFoundError, streamRef
\* is null and no track is live; a retry then starts with no stream held and no
\* live track left over.
C10_RejectedHoldsNoStream ==
  /\ (mounted /\ lastOp \in {e.name : e \in Rejections}) =>
       /\ ~isReady /\ ~isInitializing
       /\ lastOp = "NotAllowedError" => error = PermissionDeniedMessage
       /\ lastOp = "NotFoundError" => error = DeviceNotFoundMessage
       /\ error # ""
       /\ streamRef = 0
       /\ \A s \in 1..Len(streams) : ~streams[s]
  /\ (mounted /\ lastOp = "initMedia" /\ recorders = <<>>) =>
       /\ streamRef = 0
       /\ \A s \in 1..Len(streams) : ~streams[s]

\* ---------------------------------------------------------------------------
\* Ownership of streams and recorders
\* ---------------------------------------------------------------------------

\* C11: at most one acquired stream is live at any time, and a live stream is the
\* one streamRef holds: no stream with unstopped tracks is left unreferenced,
\* whatever the interleaving of initMedia invocations, mount and unmount.
C11_OneLiveStream ==
  \A s \in 1..Len(streams) : streams[s] => s = streamRef

\* C12: at most one recorder is in a state other than inactive at any moment,
\* also when a second start request is made while a first startRecording is
\* suspended at its await.
C12_OneActiveRecorder ==
  Cardinality({r \in 1..Len(recorders) : recorders[r].state # "inactive"}) <= 1

\* C13: in the shaping variant, whenever the shaping graph exists the stream
\* whose audio track feeds it is the one streamRef holds and its tracks are not
\* stopped.
C13_GraphWithinStream ==
  (variant = "shaping" /\ audioContextRef # 0) =>
     /\ streamRef = sources[audioContextRef]
     /\ streamRef # 0 /\ streams[streamRef]

\* ---------------------------------------------------------------------------
\* Recorder errors
\* ---------------------------------------------------------------------------

\* C14 as stated: once the recorder has reported an error the elapsed timer is
\* stopped, isRecording is false, the generic message is set and the session is
\* Ready.
C14_FaultEndsRecording ==
  (mounted /\ lastOp = "onerror") =>
     /\ timerIntervalRef = 0 /\ intervals = 0
     /\ ~isRecording
     /\ error = RecordingErrorMessage
     /\ isReady

\* The recorder whose stop handler ran last.
C14_LastStopped == deliveries[Len(deliveries)].recorder

\* C14: when the recorder reports an error while recording, the error handler
\* sets the generic message and nothing else; the runtime has inactivated the
\* recorder and queued its stop event.  When that stop callback runs the elapsed
\* timer is stopped and isRecording becomes false, the message is kept, and the
\* session is Ready: a new recording can be started.
C14_FaultThenStopEndsRecording ==
  /\ []((mounted /\ lastOp = "onerror") =>
          /\ error = RecordingErrorMessage
          /\ \E r \in 1..Len(recorders) :
               /\ recorders[r].faulted /\ recorders[r].stopQueued
               /\ recorders[r].state = "inactive")
  /\ []((mounted /\ lastOp = "onstop" /\ recorders[C14_LastStopped].faulted) =>
          /\ timerIntervalRef = 0 /\ intervals = 0
          /\ ~isRecording
          /\ isReady /\ canStart)
  /\ [][ lastOp' = "onstop" => error' = error ]_vars

\* After a recorder error and its stop callback the timer, which had counted, is
\* stopped, the message stands and Start is enabled.
C14_Witness ==
  /\ mounted /\ lastOp = "onstop"
  /\ recorders[C14_LastStopped].faulted
  /\ error = RecordingErrorMessage
  /\ elapsedSec > 0 /\ timerIntervalRef = 0
  /\ ~isRecording /\ canStart

\* ---------------------------------------------------------------------------
\* Teardown
\* ---------------------------------------------------------------------------

\* C15: each teardown operation (cleanupStreamOnly, cleanupAudioGraph, stopTimer,
\* stopRecording and the unmount cleanup that combines them) is idempotent: from
\* every reachable state, running it twice in succession leaves the state that
\* running it once leaves, also when the audio context is already closed or its
\* close() throws or rejects.  None of them raises: each yields a state.
C15_TeardownIdempotent ==
  /\ cleanupStreamOnly(cleanupStreamOnly(World)) = cleanupStreamOnly(World)
  /\ cleanupAudioGraph(cleanupAudioGraph(World)) = cleanupAudioGraph(World)
  /\ stopTimer(stopTimer(World)) = stopTimer(World)
  /\ stopRecording(stopRecording(World)) = stopRecording(World)
  /\ effectCleanup(effectCleanup(World)) = effectCleanup(World)
  /\ lastOp = "unmount" => effectCleanup(World) = World

\* A recording with its timer, its audio graph and its stream is running, so that
\* each teardown operation has something to tear down, and close() will throw.
C15_Witness ==
  /\ runtime.closeThrows
  /\ isRecording /\ timerIntervalRef # 0
  /\ audioContextRef # 0 /\ streamRef # 0
  /\ recorderRef # 0 /\ recorders[recorderRef].state = "recording"
  /\ cleanupStreamOnly(World) # World
  /\ cleanupAudioGraph(World) # World
  /\ stopTimer(World) # World
  /\ stopRecording(World) # World

C16_Published == lastOp = "tick" /\ meterLastUiUpdateMsRef = clock

C17_LevelsInUnitRange ==
  /\ 0 <= rms /\ rms <= Unit
  /\ 0 <= peak /\ peak <= Unit

\* ---------------------------------------------------------------------------
\* A stop request has just called stop() on recorder r, which was recording.
C18_StopRequested(r) ==
  /\ lastOp = "stopRecording"
  /\ recorderRef = r
  /\ recorders[r].stopQueued

\* The stop callback of recorder r has just run and left the session ready:
\* isRecording false, no timer, the chunk buffer empty, one delivery for r.
C18_ReadyAfter(r) ==
  /\ lastOp = "onstop"
  /\ r <= Len(recorders) /\ C4_StopHandled(r)
  /\ ~isRecording
  /\ timerIntervalRef = 0 /\ intervals = 0
  /\ chunksRef = <<>>
  /\ Cardinality(C4_DeliveriesOf(r)) = 1
  /\ deliveries[Len(deliveries)].recorder = r

\* C18: whenever a stop is requested while a recording is active, and the
\* runtime fires the queued stop callback, the session eventually is back in
\* Ready (isRecording false, timer stopped, chunk buffer empty) with one
\* delivery emitted for that recording.
C18_StopLeadsToReady ==
  \A r \in 1..MaxObjects :
    (r <= Len(recorders) /\ C18_StopRequested(r)) ~> C18_ReadyAfter(r)

\* A recording with a buffered chunk was stopped on request and its stop
\* callback delivered the chunk.
C18_Witness ==
  /\ C18_ReadyAfter(recorderRef)
  /\ isReady /\ canStart
  /\ deliveries[Len(deliveries)].chunks # <<>>
  /\ error = ""

\* ---------------------------------------------------------------------------
\* Failing starts
\* ---------------------------------------------------------------------------

\* The recorders an invocation that took w0 to w2 has started.
C20_StartedBy(w0, w2) ==
  {r \in (Len(w0.recorders) + 1)..Len(w2.recorders) : w2.recorders[r].started}

\* The invocation that took w0 to w2 failed: no recorder started, isRecording
\* false, the timer stopped, the elapsed time 0 and the error message set.
C20_Failed(w0, w2) ==
  /\ C20_StartedBy(w0, w2) = {}
  /\ ~w2.isRecording
  /\ w2.timerIntervalRef = 0 /\ w2.intervals = 0
  /\ w2.elapsedSec = 0
  /\ w2.error # ""

\* The invocation that took w0 to w2 entered Recording on a new recorder.
C20_Entered(w0, w2) ==
  /\ C20_StartedBy(w0, w2) = {Len(w0.recorders) + 1}
  /\ w2.recorderRef = Len(w0.recorders) + 1
  /\ w2.recorders[w2.recorderRef].state = "recording"
  /\ w2.isRecording
  /\ w2.timerIntervalRef # 0 /\ w2.intervals = 1
  /\ w2.elapsedSec = 0

\* The runtime behaviours of C19: every probe and accept pattern of StartEnvs,
\* start() not throwing and the exception carrying a message.
C19_LadderEnvs == {env \in StartEnvs : ~env.startThrows /\ env.message # ""}

\* C19: when the constructions at all four rungs throw, exactly one more
\* construction is attempted, without bitrates (the codec string alone, or none);
\* otherwise none is.  pickMimeType yields a candidate or "" whatever the probe
\* does, and a throwing probe fails no start.  An invocation of startRecording
\* that reaches the constructions, in any state of a mounted component, fails
\* because of them only when that last construction throws as well, and then
\* no recorder exists for it, isRecording is false, the timer is stopped, the
\* elapsed time is 0 and the error is set; it enters Recording whenever some
\* rung or the last construction is accepted, also when no codec is supported.
C19_BareFallback ==
  mounted =>
    \A env \in C19_LadderEnvs :
      LET c == constructRecorder(env.accept)
          mime == pickMimeType(runtime.MediaRecorder, env.probe)
          accepted == \E k \in 1..Bare : env.accept[k]
      IN /\ IF \A k \in 1..(Bare - 1) : ~env.accept[k]
            THEN /\ Len(c.log) = Bare
                 /\ \A k \in 1..(Bare - 1) : c.log[k].threw /\ c.log[k].videoBitsPerSecond > 0
                 /\ c.log[Bare] = [rung |-> Bare, videoBitsPerSecond |-> 0,
                                    audioBitsPerSecond |-> 0, threw |-> ~env.accept[Bare]]
            ELSE /\ Len(c.log) < Bare
                 /\ c.videoBitsPerSecond > 0
         /\ c.ok <=> accepted
         /\ mime \in {candidates[i] : i \in 1..Len(candidates)} \cup {""}
         /\ (env.probe # AllYes \/ ~runtime.MediaRecorder) => mime = ""
         /\ \A ctxState \in NewContextStates :
              LET r == startRecording(World, ctxState)
              IN r.status = "go" =>
                   LET w2 == startRecordingRest(r.w, r.call, env)
                   IN IF accepted
                      THEN /\ C20_Entered(r.w, w2)
                           /\ w2.error = ""
                           /\ w2.recorders[w2.recorderRef].chosenMime = mime
                           /\ w2.recorders[w2.recorderRef].log = c.log
                      ELSE /\ C20_Failed(r.w, w2)
                           /\ Len(w2.recorders) = Len(r.w.recorders)
         /\ \A i \in {k \in 1..Len(startCalls) : startCalls[k].handler = "startRecording"} :
              LET w2 == startRecordingResumed(World, startCalls[i], env)
              IN IF accepted
                 THEN C20_Entered(World, w2) /\ w2.recorders[w2.recorderRef].log = c.log
                 ELSE C20_Failed(World, w2) /\ Len(w2.recorders) = Len(recorders)

\* A start has just failed because every construction threw, the probe having
\* thrown for every candidate: no recorder exists and the session is not
\* recording.
C19_Witness ==
  /\ lastOp \in {"startRecording", "startRecordingResumed"}
  /\ error = "NotSupportedError"
  /\ recorders = <<>>
  /\ ~isRecording /\ timerIntervalRef = 0 /\ elapsedSec = 0

\* The runtime behaviours of C20: every construction accepted or none, with or
\* without an exception message, start() throwing or not.
C20_Envs == {env \in StartEnvs : env.probe = AllYes /\ env.accept \in {AcceptAll, AcceptNone}}

\* startRecording can get past its three checks.
C20_Preconditions == runtime.MediaRecorder /\ streamRef # 0 /\ runtime.videoTrack

\* C20: an invocation of startRecording, in any state of a mounted component,
\* enters Recording only if MediaRecorder is available, a raw stream is held
\* and it has a video track; if one of these fails, or the graph, a
\* construction or start() throws, no recorder is started, isRecording is
\* false, the timer is stopped, the elapsed time is 0 and the error is set.
C20_StartOrFail ==
  mounted =>
    /\ \A ctxState \in NewContextStates :
         LET r == startRecording(World, ctxState)
         IN /\ ~C20_Preconditions => r.status = "done"
            /\ r.status = "done" => C20_Failed(World, r.w)
            /\ r.status = "await" => r.w.startCalls # <<>> /\ C20_StartedBy(World, r.w) = {}
            /\ r.status = "go" =>
                 \A env \in C20_Envs :
                   LET w2 == startRecordingRest(r.w, r.call, env)
                   IN IF constructRecorder(env.accept).ok /\ ~env.startThrows
                      THEN C20_Entered(r.w, w2)
                      ELSE C20_Failed(r.w, w2)
    /\ \A i \in {k \in 1..Len(startCalls) : startCalls[k].handler = "startRecording"},
          env \in C20_Envs :
         LET w2 == startRecordingResumed(World, startCalls[i], env)
         IN IF constructRecorder(env.accept).ok /\ ~env.startThrows
            THEN C20_Entered(World, w2)
            ELSE C20_Failed(World, w2)

\* After an earlier recording was delivered, a start has just failed because
\* start() threw on the new recorder: the session is not recording, its timer
\* is stopped and reset, and the error is shown.
C20_Witness ==
  /\ lastOp \in {"startRecording", "startRecordingResumed"}
  /\ error # ""
  /\ recorderRef # 0 /\ ~recorders[recorderRef].started
  /\ ~isRecording /\ timerIntervalRef = 0 /\ elapsedSec = 0
  /\ deliveries # <<>>

\* ---------------------------------------------------------------------------
\* Chunk callbacks, re-acquisition and the audio graph
\* ---------------------------------------------------------------------------

\* C21: a chunk callback appends to chunksRef only while the session is
\* recording (isRecording true) and only a chunk of the session's current
\* recorder.
C21_AppendOnlyWhileRecording ==
  [][(lastOp' = "ondataavailable" /\ Len(chunksRef') > Len(chunksRef))
       => /\ isRecording
          /\ chunksRef'[Len(chunksRef')].recorder = recorderRef]_vars

\* C22: right after initMedia has begun, everything that was live is torn down:
\* no stream is held and no stream has running tracks, no audio graph is built,
\* and no recorder is active.
C22_InitMediaTearsDown ==
  lastOp = "initMedia" =>
    /\ streamRef = 0
    /\ \A s \in 1..Len(streams) : ~streams[s]
    /\ audioContextRef = 0 /\ audioDestinationRef = 0 /\ analyserRef = 0
    /\ \A r \in 1..Len(recorders) : recorders[r].state = "inactive"

\* C23: every audio context that was created and is not closed is the one
\* audioContextRef holds, so at most one is live and none is live unreferenced.
C23_OneLiveContext ==
  \A c \in 1..Len(contexts) : contexts[c] # "closed" => c = audioContextRef

\* C24: in the shaping variant no audio graph is left after a stop callback
\* (audioContextRef and audioDestinationRef are null); in the monitoring variant
\* a stop callback leaves the graph, the contexts and the meter loop as they are.
C24_GraphAfterStop ==
  /\ []((variant = "shaping" /\ lastOp = "onstop")
          => audioContextRef = 0 /\ audioDestinationRef = 0)
  /\ [][(variant = "monitoring" /\ lastOp' = "onstop")
          => UNCHANGED <<audioContextRef, analyserRef, audioDestinationRef, contexts,
                         meterRafRef, frames, isAudioMeterEnabled, lastClipAtMsRef,
                         meterLastUiUpdateMsRef, rms, peak, isClipping>>]_vars

\* The message of the graph-construction error the runtime causes, "" for none.
C25_GraphError ==
  IF ~runtime.AudioContext THEN NoAudioContextMessage
  ELSE IF ~runtime.audioTrack THEN NoMicrophoneTrackMessage
  ELSE ""

\* C25: when the audio graph cannot be built (no AudioContext, or no audio track
\* on the stream), a start request ends with the error message of the failure
\* shown and without recording, in the shaping and in the monitoring variant.
C25_GraphErrorSurfaced ==
  (lastOp \in {"startRecording", "startRecordingResumed"} /\ C25_GraphError # "")
    => /\ error = C25_GraphError
       /\ ~isRecording
       /\ \A r \in 1..Len(recorders) : ~recorders[r].started

\* C25 (amended): when the audio graph cannot be built, a start request of the
\* shaping variant ends with the error message of the failure shown and without
\* recording; a start request of the monitoring variant, whose graph only feeds
\* the meter, swallows the failure: no error is shown, the meter stays off and
\* recording starts.
C25_GraphErrorByVariant ==
  (lastOp \in {"startRecording", "startRecordingResumed"} /\ C25_GraphError # "")
    => IF variant = "shaping"
       THEN /\ error = C25_GraphError
            /\ ~isRecording
            /\ \A r \in 1..Len(recorders) : ~recorders[r].started
            /\ audioContextRef = 0 /\ audioDestinationRef = 0
       ELSE /\ error = ""
            /\ isRecording
            /\ recorderRef # 0 /\ recorders[recorderRef].state = "recording"
            /\ ~isAudioMeterEnabled /\ meterRafRef = 0
            /\ audioContextRef = 0 /\ analyserRef = 0

\* The monitoring variant is recording although the stream has no audio track
\* for the meter's graph.
C25_Witness ==
  /\ variant = "monitoring"
  /\ lastOp = "startRecording"
  /\ runtime.AudioContext /\ ~runtime.audioTrack
  /\ isRecording /\ error = ""

\* The suspended invocation is one of startRecording.
C26_IsStart(call) == call.handler = "startRecording"

\* The context audioContextRef holds is running in the next state.
C26_RunningNext ==
  audioContextRef' # 0 /\ contexts'[audioContextRef'] = "running"

\* C26: when the resume() that startRecording awaits settles, fulfilled or
\* rejected, no error is surfaced and every invocation that waited for it goes
\* on and starts its recorder; in the monitoring variant the meter is enabled
\* and its loop running afterwards if the context is running, and a meter that
\* was off stays off if it is not.
C26_ResumeFailureSwallowed ==
  [][(lastOp' = "startRecordingResumed")
       => /\ error' = error
          /\ Len(recorders') =
               Len(recorders) + Len(SelectSeq(startCalls, C26_IsStart))
                              - Len(SelectSeq(startCalls', C26_IsStart))
          /\ Len(recorders') > Len(recorders)
          /\ recorders'[recorderRef'].state = "recording"
          /\ isRecording'
          /\ variant = "monitoring" =>
               /\ C26_RunningNext => isAudioMeterEnabled' /\ meterRafRef' # 0
               /\ ~C26_RunningNext =>
                    /\ isAudioMeterEnabled' = isAudioMeterEnabled
                    /\ meterRafRef' = meterRafRef]_vars

\* resume() was rejected: the context is still suspended, the recording has
\* started all the same, no error is shown and the meter is off.
C26_Witness ==
  /\ lastOp = "startRecordingResumed"
  /\ variant = "monitoring"
  /\ audioContextRef # 0 /\ contexts[audioContextRef] = "suspended"
  /\ isRecording /\ error = ""
  /\ recorderRef # 0 /\ recorders[recorderRef].state = "recording"
  /\ ~isAudioMeterEnabled /\ meterRafRef = 0

----------------------------------------------------------------------------
(* The meter loop.                                                         *)

\* The tick that just ran updated the published levels.
C27_Publishes ==
  lastOp' = "tick" /\ publishedAt' # publishedAt

\* C27 as stated: any two updates of the published levels by the meter loop
\* are more than 50 ms apart, also across a teardown and a re-enable.
C27_UpdatesThrottled ==
  [][(C27_Publishes /\ publishedAt >= 0) => publishedAt' - publishedAt > UiThrottleMs]_vars

\* C27, amended: two updates of the published levels by the meter loop are more
\* than 50 ms apart unless the graph was torn down between them (the teardown
\* resets the time of the last update to 0, and zeroes the levels at once); a
\* tick that comes 50 ms or less after the last update recorded publishes nothing.
C27_UpdatesThrottledPerLoop ==
  /\ [][(C27_Publishes /\ publishedAt >= 0 /\ meterLastUiUpdateMsRef # 0)
          => publishedAt' - publishedAt > UiThrottleMs]_vars
  /\ [][(lastOp' = "tick" /\ clock' - meterLastUiUpdateMsRef <= UiThrottleMs)
          => UNCHANGED <<rms, peak, isClipping, meterLastUiUpdateMsRef, publishedAt>>]_vars
  /\ [](meterLastUiUpdateMsRef # 0 => meterLastUiUpdateMsRef = publishedAt)

\* A tick 30 ms after an update was held back, inside one run of the loop.
C27_Witness ==
  /\ lastOp = "tick"
  /\ publishedAt >= 0 /\ clock - publishedAt = 30
  /\ meterLastUiUpdateMsRef = publishedAt
  /\ rms = 64

\* C28: at most one frame callback is pending at any time, and it is the one
\* whose handle meterRafRef holds; once cleanupAudioGraph has run (the analyser
\* is gone) no frame callback is pending, so no tick publishes or reschedules;
\* an enableAudioMeter that ends with the graph built and its context running
\* leaves the loop started, also after a teardown.
C28_LoopCancellable ==
  /\ Cardinality(frames) <= 1
  /\ frames \subseteq {meterRafRef}
  /\ analyserRef = 0 => frames = {} /\ meterRafRef = 0
  /\ lastOp = "initMedia" => frames = {} /\ meterRafRef = 0
  /\ (/\ lastOp \in {"enableAudioMeter", "enableAudioMeterResumed"}
      /\ analyserRef # 0 /\ contexts[audioContextRef] = "running")
       => frames = {meterRafRef} /\ meterRafRef # 0

\* The loop runs again on the second graph: two overlapping clicks on "Enable
\* meter" after a re-acquisition, one frame callback pending.
C28_Witness ==
  /\ lastOp = "enableAudioMeterResumed"
  /\ audioContextRef = 2 /\ contexts[2] = "running" /\ contexts[1] = "closed"
  /\ startCalls = <<>>
  /\ publishedAt >= 0
  /\ Cardinality(frames) = 1

----------------------------------------------------------------------------
(* The preview between acquisitions.                                       *)

\* Every handler and callback but initMedia, its continuations and unmount.
C29_Others ==
  {"startRecording", "startRecordingResumed", "enableAudioMeter", "enableAudioMeterResumed",
   "stopRecording", "stopRecording: no-op", "ondataavailable", "onstop", "onstop again",
   "tick"}

\* The world w holds the stream, its tracks, the preview and isReady as they are.
C29_Kept(w) ==
  /\ w.streamRef = streamRef
  /\ w.streams = streams
  /\ w.videoSrc = videoSrc
  /\ w.isReady = isReady

\* C29: startRecording (started or failed), stopRecording, the chunk and stop
\* callbacks of the recorder, enableAudioMeter and the meter's frame callback
\* leave streamRef, the tracks of every stream, the preview's srcObject and
\* isReady as they are; so does the recorder's error callback, in whatever
\* state it runs.
C29_StreamKept ==
  /\ [][lastOp' \in C29_Others => UNCHANGED <<streamRef, streams, videoSrc, isReady>>]_vars
  /\ [](C29_Kept(onerror(World)))

\* A second recording runs on the stream of the first, which is still live and
\* still shown by the preview.
C29_Witness ==
  /\ lastOp \in {"startRecording", "startRecordingResumed"}
  /\ Len(recorders) = 2
  /\ recorders[1].state = "inactive" /\ recorders[2].state = "recording"
  /\ recorders[1].stream = streamRef /\ recorders[2].stream = streamRef
  /\ deliveries # <<>>
  /\ streams[streamRef] /\ videoSrc = streamRef /\ isReady

\* C30: a recorder that is recording records the stream streamRef holds, and
\* the tracks of that stream have not been stopped.
C30_RecorderOnHeldStream ==
  \A r \in 1..Len(recorders) :
    recorders[r].state = "recording"
      => recorders[r].stream = streamRef /\ streams[recorders[r].stream]

----------------------------------------------------------------------------
(* The clip indicator at start-up, the initializing flag and the timer.    *)

\* C31: a frame callback publishes isClipping true only if a frame peaked at
\* 0.98 or more less than 900 ms earlier.
C31_NoSpuriousClip ==
  (C16_Published /\ isClipping) => (clipAt >= 0 /\ clock - clipAt < ClipHoldMs)

\* C32: isInitializing is true exactly while an invocation of initMedia is
\* suspended (at getUserMedia or at play()), so "Start Recording" is disabled
\* while an acquisition is in flight.
C32_InitializingWhilePending ==
  mounted =>
    /\ isInitializing <=> (initPending + playPending > 0)
    /\ initPending > 0 => ~canStart

\* C33: at most one interval timer exists, one exists only while isRecording is
\* true, none is left after a stop callback or after unmount, and a timer that
\* startRecording has just started counts from 0.
C33_OneTimerWhileRecording ==
  /\ intervals <= 1
  /\ intervals > 0 => isRecording /\ timerIntervalRef # 0
  /\ lastOp \in {"onstop", "unmount"} => intervals = 0 /\ timerIntervalRef = 0
  /\ ~mounted => intervals = 0
  /\ (lastOp \in {"startRecording", "startRecordingResumed"} /\ intervals > 0)
       => elapsedSec = 0

====
